---- MODULE Spec2Model ----
(***************************************************************************)
(* zredis: the command executor and the concurrent backend store            *)
(* (src/backend/mod.rs, src/cmd/mod.rs, src/cmd/hmap.rs) and the frame      *)
(* model of src/resp/mod.rs.                                                *)
(*                                                                         *)
(* Strings and byte strings are sequences of byte values, frames are        *)
(* records tagged by their RespFrame variant, a DashMap is a function       *)
(* whose DOMAIN is the set of keys present, a DashSet is a set.             *)
(***************************************************************************)
EXTENDS Integers, Sequences, FiniteSets, TLC

\* ---------------------------------------------------------------- bounds
NumKeys == 2
MaxFields == 2
MaxWrites == 2
MaxArgs == 3

\* ---------------------------------------------------------------- frames
SimpleString(s) == [type |-> "SimpleString", val |-> s]
BulkString(b) == [type |-> "BulkString", val |-> b]
Integer(i) == [type |-> "Integer", val |-> i]
RespArray(s) == [type |-> "Array", val |-> s]
RespMap(m) == [type |-> "Map", val |-> m]
RespNull == [type |-> "Null"]

\* Option<T>
None == [type |-> "None"]
Some(v) == [type |-> "Some", val |-> v]
Unit == [type |-> "Unit"]

\* "OK"
RESP_OK == SimpleString(<<79, 75>>)

\* ---------------------------------------------------------------- inputs
\* keys "k1", "k2", ...
KeyOf(i) == <<107, 48 + i>>
Keys == {KeyOf(i) : i \in 1..NumKeys}
\* fields "b" and "ab"
Field_b == <<98>>
Field_ab == <<97, 98>>
Fields == {Field_b, Field_ab}
\* values of two variants: BulkString "v1" and Integer 2
Val_v1 == BulkString(<<118, 49>>)
Val_2 == Integer(2)
Vals == {Val_v1, Val_2}
FieldLists == UNION {[1..n -> Fields] : n \in 0..MaxFields}

\* ---------------------------------------------------------------- DashMap
EmptyMap == [x \in {} |-> None]

DashMap_insert(m, key, value) ==
    [x \in (DOMAIN m) \cup {key} |-> IF x = key THEN value ELSE m[x]]

\* ---------------------------------------------------------------- Backend
get(m, key) == IF key \in DOMAIN m THEN Some(m[key]) ELSE None

set_IfAbsent(m, key, value) ==
    IF key \in DOMAIN m THEN m ELSE DashMap_insert(m, key, value)

set_ClearOthers(m, key, value) == DashMap_insert(EmptyMap, key, value)

set(m, key, value) == DashMap_insert(m, key, value)

hget(h, key, field) ==
    IF key \in DOMAIN h
    THEN IF field \in DOMAIN h[key] THEN Some(h[key][field]) ELSE None
    ELSE None

entry_or_default_Reset(h, key) == DashMap_insert(h, key, EmptyMap)

entry_or_default(h, key) ==
    IF key \in DOMAIN h THEN h ELSE DashMap_insert(h, key, EmptyMap)

hset_FreshInner(h, key, field, value) ==
    DashMap_insert(h, key, DashMap_insert(EmptyMap, field, value))

hset(h, key, field, value) ==
    LET h1 == entry_or_default(h, key)
    IN  DashMap_insert(h1, key, DashMap_insert(h1[key], field, value))

RECURSIVE filter_map(_, _)
filter_map(smap, fields) ==
    IF fields = <<>> THEN <<>>
    ELSE (IF Head(fields) \in DOMAIN smap THEN <<smap[Head(fields)]>> ELSE <<>>)
         \o filter_map(smap, Tail(fields))

RECURSIVE map_or_null(_, _)
map_or_null(smap, fields) ==
    IF fields = <<>> THEN <<>>
    ELSE <<IF Head(fields) \in DOMAIN smap THEN smap[Head(fields)] ELSE RespNull>>
         \o map_or_null(smap, Tail(fields))

hmget_PadNull(h, key, fields) ==
    IF key \in DOMAIN h THEN Some(map_or_null(h[key], fields)) ELSE None

hmget(h, key, fields) ==
    IF key \in DOMAIN h THEN Some(filter_map(h[key], fields)) ELSE None

echo(key) == Some(SimpleString(key))

\* ---------------------------------------------------------------- RespMap
\* String ordering: byte-wise lexicographic
RECURSIVE StrLess(_, _)
StrLess(a, b) ==
    IF a = <<>> THEN b # <<>>
    ELSE IF b = <<>> THEN FALSE
    ELSE IF a[1] # b[1] THEN a[1] < b[1]
    ELSE StrLess(Tail(a), Tail(b))

RespMap_new == <<>>

RespMap_insert_Append(m, key, value) ==
    IF \E i \in 1..Len(m) : m[i][1] = key
    THEN [i \in 1..Len(m) |-> IF m[i][1] = key THEN <<key, value>> ELSE m[i]]
    ELSE Append(m, <<key, value>>)

\* BTreeMap::insert: entries are kept sorted by key, a present key is replaced
RespMap_insert(m, key, value) ==
    IF \E i \in 1..Len(m) : m[i][1] = key
    THEN [i \in 1..Len(m) |-> IF m[i][1] = key THEN <<key, value>> ELSE m[i]]
    ELSE LET n == Cardinality({i \in 1..Len(m) : StrLess(m[i][1], key)})
         IN  SubSeq(m, 1, n) \o <<<<key, value>>>> \o SubSeq(m, n + 1, Len(m))

\* the orders in which DashMap::iter may visit the entries of a map
IterOrders(S) ==
    {o \in [1..Cardinality(S) -> S] : \A i, j \in DOMAIN o : i # j => o[i] # o[j]}

RECURSIVE collect_map(_, _, _)
collect_map(inner, order, acc) ==
    IF order = <<>> THEN acc
    ELSE collect_map(inner, Tail(order),
                     RespMap_insert(acc, Head(order), inner[Head(order)]))

\* ---------------------------------------------------------------- command layer
\* Result<T, CommandError>; an error is represented by its variant
Ok(v) == [type |-> "Ok", val |-> v]
Err(kind) == [type |-> "Err", kind |-> kind]

Name_get == <<103, 101, 116>>
Name_set == <<115, 101, 116>>
Name_hget == <<104, 103, 101, 116>>
Name_hset == <<104, 115, 101, 116>>
Name_hgetall == <<104, 103, 101, 116, 97, 108, 108>>
Name_hmget == <<104, 109, 103, 101, 116>>
Name_echo == <<101, 99, 104, 111>>
Name_sadd == <<115, 97, 100, 100>>
Name_sismember == <<115, 105, 115, 109, 101, 109, 98, 101, 114>>
KnownNames == {Name_get, Name_set, Name_hget, Name_hset, Name_hgetall, Name_hmget,
               Name_echo, Name_sadd, Name_sismember}

to_ascii_lowercase(b) ==
    [i \in DOMAIN b |-> IF b[i] \in 65..90 THEN b[i] + 32 ELSE b[i]]

\* String::from_utf8 succeeds exactly on well-formed UTF-8
IsCont(c) == c \in 128..191
RECURSIVE IsUtf8(_)
IsUtf8(b) ==
    IF b = <<>> THEN TRUE
    ELSE LET c == b[1]
             n == Len(b)
         IN  IF c < 128 THEN IsUtf8(Tail(b))
             ELSE IF c \in 194..223
             THEN n >= 2 /\ IsCont(b[2]) /\ IsUtf8(SubSeq(b, 3, n))
             ELSE IF c \in 224..239
             THEN /\ n >= 3
                  /\ b[2] \in (IF c = 224 THEN 160..191
                               ELSE IF c = 237 THEN 128..159 ELSE 128..191)
                  /\ IsCont(b[3])
                  /\ IsUtf8(SubSeq(b, 4, n))
             ELSE IF c \in 240..244
             THEN /\ n >= 4
                  /\ b[2] \in (IF c = 240 THEN 144..191
                               ELSE IF c = 244 THEN 128..143 ELSE 128..191)
                  /\ IsCont(b[3])
                  /\ IsCont(b[4])
                  /\ IsUtf8(SubSeq(b, 5, n))
             ELSE FALSE

RECURSIVE validate_names(_, _, _)
validate_names(value, names, i) ==
    IF i > Len(names) THEN Ok(Unit)
    ELSE IF value[i].type = "BulkString"
    THEN IF to_ascii_lowercase(value[i].val) # names[i]
         THEN Err("InvalidCommand")
         ELSE validate_names(value, names, i + 1)
    ELSE Err("InvalidCommand")

validate_command_AtLeast(value, names, n_args) ==
    IF Len(value) < n_args + Len(names)
    THEN Err("InvalidArgument")
    ELSE validate_names(value, names, 1)

validate_command(value, names, n_args) ==
    IF Len(value) # n_args + Len(names)
    THEN Err("InvalidArgument")
    ELSE validate_names(value, names, 1)

extract_args(value, start) == SubSeq(value, start + 1, Len(value))

Echo_try_from(value) ==
    LET v == validate_command(value, <<Name_echo>>, 1)
        args == extract_args(value, 1)
    IN  IF v.type = "Err" THEN v
        ELSE IF args # <<>> /\ args[1].type = "BulkString"
        THEN IF IsUtf8(args[1].val)
             THEN Ok([type |-> "Echo", key |-> args[1].val])
             ELSE Err("Utf8Error")
        ELSE Err("InvalidArgument")

HGet_try_from(value) ==
    LET v == validate_command(value, <<Name_hget>>, 2)
        args == extract_args(value, 1)
    IN  IF v.type = "Err" THEN v
        ELSE IF Len(args) >= 2 /\ args[1].type = "BulkString"
                /\ args[2].type = "BulkString"
        THEN IF IsUtf8(args[1].val) /\ IsUtf8(args[2].val)
             THEN Ok([type |-> "HGet", key |-> args[1].val, field |-> args[2].val])
             ELSE Err("Utf8Error")
        ELSE Err("InvalidArgument")

HGetAll_try_from(value) ==
    LET v == validate_command(value, <<Name_hgetall>>, 1)
        args == extract_args(value, 1)
    IN  IF v.type = "Err" THEN v
        ELSE IF args # <<>> /\ args[1].type = "BulkString"
        THEN IF IsUtf8(args[1].val)
             THEN Ok([type |-> "HGetAll", key |-> args[1].val])
             ELSE Err("Utf8Error")
        ELSE Err("InvalidArgument")

HSet_try_from(value) ==
    LET v == validate_command(value, <<Name_hset>>, 3)
        args == extract_args(value, 1)
    IN  IF v.type = "Err" THEN v
        ELSE IF Len(args) >= 3 /\ args[1].type = "BulkString"
                /\ args[2].type = "BulkString"
        THEN IF IsUtf8(args[1].val) /\ IsUtf8(args[2].val)
             THEN Ok([type |-> "HSet", key |-> args[1].val, field |-> args[2].val,
                      value |-> args[3]])
             ELSE Err("Utf8Error")
        ELSE Err("InvalidArgument")

RECURSIVE collect_fields_SkipNonBulk(_)
collect_fields_SkipNonBulk(args) ==
    IF args = <<>> THEN Ok(<<>>)
    ELSE IF Head(args).type # "BulkString" THEN collect_fields_SkipNonBulk(Tail(args))
    ELSE IF ~IsUtf8(Head(args).val) THEN Err("Utf8Error")
    ELSE LET rest == collect_fields_SkipNonBulk(Tail(args))
         IN  IF rest.type = "Err" THEN rest
             ELSE Ok(<<Head(args).val>> \o rest.val)

\* collecting the fields into a Result stops at the first failing one
RECURSIVE collect_fields(_)
collect_fields(args) ==
    IF args = <<>> THEN Ok(<<>>)
    ELSE IF Head(args).type # "BulkString" THEN Err("InvalidArgument")
    ELSE IF ~IsUtf8(Head(args).val) THEN Err("Utf8Error")
    ELSE LET rest == collect_fields(Tail(args))
         IN  IF rest.type = "Err" THEN rest
             ELSE Ok(<<Head(args).val>> \o rest.val)

HMGet_try_from(value) ==
    LET n_args == Len(value) - 1
        v == validate_command(value, <<Name_hmget>>, n_args)
        args == extract_args(value, 1)
    IN  IF v.type = "Err" THEN v
        ELSE IF args # <<>> /\ args[1].type = "BulkString"
        THEN LET fields == collect_fields(Tail(args))
             IN  IF ~IsUtf8(args[1].val) THEN Err("Utf8Error")
                 ELSE IF fields.type = "Err" THEN fields
                 ELSE Ok([type |-> "HMGet", key |-> args[1].val,
                          fields |-> fields.val])
        ELSE Err("InvalidArgument")

\* cmd/map.rs: Get(key), Set(key, value), Sadd(key, item), Sismember(key, item)
Get_try_from(value) ==
    LET v == validate_command(value, <<Name_get>>, 1)
        args == extract_args(value, 1)
    IN  IF v.type = "Err" THEN v
        ELSE IF args # <<>> /\ args[1].type = "BulkString"
        THEN IF IsUtf8(args[1].val)
             THEN Ok([type |-> "Get", key |-> args[1].val])
             ELSE Err("Utf8Error")
        ELSE Err("InvalidArgument")

KeyAndFrame_try_from(value, name, type) ==
    LET v == validate_command(value, <<name>>, 2)
        args == extract_args(value, 1)
    IN  IF v.type = "Err" THEN v
        ELSE IF Len(args) >= 2 /\ args[1].type = "BulkString"
        THEN IF IsUtf8(args[1].val)
             THEN Ok([type |-> type, key |-> args[1].val, arg |-> args[2]])
             ELSE Err("Utf8Error")
        ELSE Err("InvalidArgument")

Set_try_from(value) == KeyAndFrame_try_from(value, Name_set, "Set")
Sadd_try_from(value) == KeyAndFrame_try_from(value, Name_sadd, "Sadd")
Sismember_try_from(value) == KeyAndFrame_try_from(value, Name_sismember, "Sismember")

Unrecognized == [type |-> "Unrecognized"]

Command_try_from_array_RejectUnknown(v) ==
    IF v # <<>> /\ v[1].type = "BulkString"
    THEN LET cmd == v[1].val
         IN  CASE cmd = Name_get -> Get_try_from(v)
               [] cmd = Name_set -> Set_try_from(v)
               [] cmd = Name_hget -> HGet_try_from(v)
               [] cmd = Name_hset -> HSet_try_from(v)
               [] cmd = Name_hgetall -> HGetAll_try_from(v)
               [] cmd = Name_hmget -> HMGet_try_from(v)
               [] cmd = Name_echo -> Echo_try_from(v)
               [] cmd = Name_sadd -> Sadd_try_from(v)
               [] cmd = Name_sismember -> Sismember_try_from(v)
               [] OTHER -> Err("InvalidCommand")
    ELSE Err("InvalidCommand")

\* TryFrom<RespArray> for Command: the name is matched byte for byte
Command_try_from_array(v) ==
    IF v # <<>> /\ v[1].type = "BulkString"
    THEN LET cmd == v[1].val
         IN  CASE cmd = Name_get -> Get_try_from(v)
               [] cmd = Name_set -> Set_try_from(v)
               [] cmd = Name_hget -> HGet_try_from(v)
               [] cmd = Name_hset -> HSet_try_from(v)
               [] cmd = Name_hgetall -> HGetAll_try_from(v)
               [] cmd = Name_hmget -> HMGet_try_from(v)
               [] cmd = Name_echo -> Echo_try_from(v)
               [] cmd = Name_sadd -> Sadd_try_from(v)
               [] cmd = Name_sismember -> Sismember_try_from(v)
               [] OTHER -> Ok(Unrecognized)
    ELSE Err("InvalidCommand")

Command_try_from_Lenient(value) ==
    IF value.type = "Array" THEN Command_try_from_array(value.val)
    ELSE Ok(Unrecognized)

\* TryFrom<RespFrame> for Command
Command_try_from(value) ==
    IF value.type = "Array" THEN Command_try_from_array(value.val)
    ELSE Err("InvalidCommand")

\* ---------------------------------------------------------------- codec
\* resp/encode.rs and resp/decode.rs: the wire format of the ten variants
SimpleError(s) == [type |-> "Error", val |-> s]
Boolean(b) == [type |-> "Boolean", val |-> b]
Double(x) == [type |-> "Double", val |-> x]
RespSet(s) == [type |-> "Set", val |-> s]

\* f64 values: NaN, the infinities, and the decimals digits * 10^(-scale)
\* with a sign, kept in lowest terms (-0.0 is the decimal 0 with neg set)
F64_NaN == [kind |-> "nan"]
F64_Inf(neg) == [kind |-> "inf", neg |-> neg]
F64_Dec(neg, digits, scale) ==
    [kind |-> "fin", neg |-> neg, digits |-> digits, scale |-> scale]

CRLF == <<13, 10>>

RECURSIVE Pow10(_)
Pow10(k) == IF k = 0 THEN 1 ELSE 10 * Pow10(k - 1)

RECURSIVE utoa(_)
utoa(n) == IF n < 10 THEN <<48 + n>> ELSE utoa(n \div 10) \o <<48 + (n % 10)>>

\* the decimal text of an integer
itoa(i) == IF i < 0 THEN <<45>> \o utoa(0 - i) ELSE utoa(i)

\* n written with exactly k digits
RECURSIVE pad(_, _)
pad(n, k) == IF k = 0 THEN <<>> ELSE pad(n \div 10, k - 1) \o <<48 + (n % 10)>>

\* the text of an f64
ftoa(x) ==
    IF x.kind = "nan" THEN <<78, 97, 78>>
    ELSE IF x.kind = "inf"
    THEN (IF x.neg THEN <<45>> ELSE <<>>) \o <<105, 110, 102>>
    ELSE (IF x.neg THEN <<45>> ELSE <<>>)
         \o utoa(x.digits \div Pow10(x.scale))
         \o (IF x.scale = 0 THEN <<>>
             ELSE <<46>> \o pad(x.digits % Pow10(x.scale), x.scale))

IsDigits(t) == t # <<>> /\ \A i \in DOMAIN t : t[i] \in 48..57

RECURSIVE digits_value(_)
digits_value(t) ==
    IF t = <<>> THEN 0
    ELSE 10 * digits_value(SubSeq(t, 1, Len(t) - 1)) + (t[Len(t)] - 48)

\* str::parse::<i64>: an optional sign and at least one digit
atoi(t) ==
    LET signed == t # <<>> /\ t[1] \in {43, 45}
        body == IF signed THEN Tail(t) ELSE t
    IN  IF IsDigits(body)
        THEN Ok(IF signed /\ t[1] = 45 THEN 0 - digits_value(body)
                ELSE digits_value(body))
        ELSE Err("ParseIntError")

RECURSIVE lowest_terms(_, _, _)
lowest_terms(neg, digits, scale) ==
    IF scale > 0 /\ digits % 10 = 0
    THEN lowest_terms(neg, digits \div 10, scale - 1)
    ELSE F64_Dec(neg, digits, scale)

\* str::parse::<f64>, for the texts ftoa produces: NaN, inf and plain decimals
atof(t) ==
    LET signed == t # <<>> /\ t[1] \in {43, 45}
        neg == signed /\ t[1] = 45
        body == IF signed THEN Tail(t) ELSE t
        dot == {i \in DOMAIN body : body[i] = 46}
    IN  IF to_ascii_lowercase(body) = <<110, 97, 110>> THEN Ok(F64_NaN)
        ELSE IF to_ascii_lowercase(body) = <<105, 110, 102>> THEN Ok(F64_Inf(neg))
        ELSE IF dot = {}
        THEN IF IsDigits(body) THEN Ok(F64_Dec(neg, digits_value(body), 0))
             ELSE Err("ParseFloatError")
        ELSE LET d == CHOOSE i \in dot : \A j \in dot : i <= j
                 ip == SubSeq(body, 1, d - 1)
                 fp == SubSeq(body, d + 1, Len(body))
             IN  IF IsDigits(ip) /\ IsDigits(fp)
                 THEN Ok(lowest_terms(neg, digits_value(ip \o fp), Len(fp)))
                 ELSE Err("ParseFloatError")

RECURSIVE encode(_), encode_all(_), encode_pairs(_)
\* RespEncode::encode
encode(f) ==
    CASE f.type = "SimpleString" -> <<43>> \o f.val \o CRLF
      [] f.type = "Error" -> <<45>> \o f.val \o CRLF
      [] f.type = "Integer" -> <<58>> \o itoa(f.val) \o CRLF
      [] f.type = "BulkString" -> <<36>> \o utoa(Len(f.val)) \o CRLF \o f.val \o CRLF
      [] f.type = "Array" -> <<42>> \o utoa(Len(f.val)) \o CRLF \o encode_all(f.val)
      [] f.type = "Null" -> <<95>> \o CRLF
      [] f.type = "Boolean" -> <<35>> \o (IF f.val THEN <<116>> ELSE <<102>>) \o CRLF
      [] f.type = "Double" -> <<44>> \o ftoa(f.val) \o CRLF
      [] f.type = "Map" -> <<37>> \o utoa(Len(f.val)) \o CRLF \o encode_pairs(f.val)
      [] f.type = "Set" -> <<126>> \o utoa(Len(f.val)) \o CRLF \o encode_all(f.val)

encode_all(fs) ==
    IF fs = <<>> THEN <<>> ELSE encode(Head(fs)) \o encode_all(Tail(fs))

\* a Map entry is its key as a SimpleString followed by its value
encode_pairs(m) ==
    IF m = <<>> THEN <<>>
    ELSE encode(SimpleString(Head(m)[1])) \o encode(Head(m)[2]) \o encode_pairs(Tail(m))

\* the index of the CR of the first CR-LF of buf, 0 when there is none
find_crlf(buf) ==
    LET hits == {i \in 1..(Len(buf) - 1) : buf[i] = 13 /\ buf[i + 1] = 10}
    IN  IF hits = {} THEN 0 ELSE CHOOSE i \in hits : \A j \in hits : i <= j

Markers == {43, 45, 58, 36, 42, 95, 35, 44, 37, 126}

\* r with f applied to the value of a success: Result::map
MapOk(r, type) == IF r.type = "Err" THEN r ELSE Ok([type |-> type, val |-> r.val])

\* the length h + body.val, or the error of body
AddLen(h, body) == IF body.type = "Err" THEN body ELSE Ok(h + body.val)

RECURSIVE expect_length(_), expect_line(_, _), expect_header(_, _, _),
          expect_elements(_, _), expect_rest(_, _, _)
\* RespDecode::expect_length: the number of bytes the frame at the front of
\* buf occupies, NotComplete when it is not all there yet
expect_length(buf) ==
    IF buf = <<>> THEN Err("NotComplete")
    ELSE IF buf[1] \notin Markers THEN Err("InvalidFrameType")
    ELSE expect_line(buf, find_crlf(buf))

\* e is where the first line of buf ends: line-based frames end there
expect_line(buf, e) ==
    IF e = 0 THEN Err("NotComplete")
    ELSE IF buf[1] \in {43, 45, 58, 95, 35, 44} THEN Ok(e + 1)
    ELSE expect_header(buf, e, atoi(SubSeq(buf, 2, e - 1)))

\* n is the length or count of the header line: a BulkString needs n bytes
\* and a CR-LF, a composite needs each of its elements
expect_header(buf, e, n) ==
    IF n.type = "Err" THEN n
    ELSE IF buf[1] = 36
    THEN IF n.val = 0 - 1 THEN Ok(e + 1)
         ELSE IF n.val < 0 THEN Err("InvalidFrameLength")
         ELSE IF Len(buf) < e + 1 + n.val + 2 THEN Err("NotComplete")
         ELSE Ok(e + 1 + n.val + 2)
    ELSE IF n.val < 0 THEN Err("InvalidFrameLength")
    ELSE AddLen(e + 1, expect_elements(SubSeq(buf, e + 2, Len(buf)),
                                       IF buf[1] = 37 THEN 2 * n.val ELSE n.val))

\* the total length of the next n frames of buf
expect_elements(buf, n) ==
    IF n = 0 THEN Ok(0) ELSE expect_rest(buf, n, expect_length(buf))

expect_rest(buf, n, first) ==
    IF first.type = "Err" THEN first
    ELSE AddLen(first.val, expect_elements(SubSeq(buf, first.val + 1, Len(buf)), n - 1))

\* the frames first and rest in one sequence, or the first error
Cons(first, rest) ==
    IF first.type = "Err" THEN first
    ELSE IF rest.type = "Err" THEN rest
    ELSE Ok(<<first.val>> \o rest.val)

\* the entry key -> value added to the entries rest; a key is a SimpleString
ConsEntry(key, value, rest) ==
    IF key.type = "Err" THEN key
    ELSE IF key.val.type # "SimpleString" THEN Err("InvalidFrameType")
    ELSE IF value.type = "Err" THEN value
    ELSE IF rest.type = "Err" THEN rest
    ELSE Ok(RespMap_insert(rest.val, key.val.val, value.val))

parse_null(text) == IF text = <<>> THEN Ok(RespNull) ELSE Err("InvalidFrame")

parse_boolean(text) ==
    IF text = <<116>> THEN Ok(Boolean(TRUE))
    ELSE IF text = <<102>> THEN Ok(Boolean(FALSE))
    ELSE Err("InvalidFrame")

\* the payload of a BulkString of n bytes; a length of -1 is the null
parse_bulk(body, n) ==
    IF n = 0 - 1 THEN Ok(RespNull)
    ELSE IF SubSeq(body, n + 1, n + 2) # CRLF THEN Err("InvalidFrame")
    ELSE Ok(BulkString(SubSeq(body, 1, n)))

RECURSIVE parse_frame(_), parse_line(_, _, _), parse_elements(_, _),
          parse_split(_, _, _), parse_pairs(_, _), parse_entry(_, _, _),
          parse_value(_, _, _, _)
\* the frame held by bytes that expect_length found complete
parse_frame(buf) ==
    parse_line(buf[1],
               SubSeq(buf, 2, find_crlf(buf) - 1),
               SubSeq(buf, find_crlf(buf) + 2, Len(buf)))

\* text is the first line after the marker, body what follows the line
parse_line(marker, text, body) ==
    CASE marker = 43 -> Ok(SimpleString(text))
      [] marker = 45 -> Ok(SimpleError(text))
      [] marker = 58 -> MapOk(atoi(text), "Integer")
      [] marker = 95 -> parse_null(text)
      [] marker = 35 -> parse_boolean(text)
      [] marker = 44 -> MapOk(atof(text), "Double")
      [] marker = 36 -> parse_bulk(body, atoi(text).val)
      [] marker = 42 -> MapOk(parse_elements(body, atoi(text).val), "Array")
      [] marker = 126 -> MapOk(parse_elements(body, atoi(text).val), "Set")
      [] marker = 37 -> MapOk(parse_pairs(body, atoi(text).val), "Map")

\* the next n frames of buf
parse_elements(buf, n) ==
    IF n = 0 THEN Ok(<<>>) ELSE parse_split(buf, n, expect_length(buf).val)

parse_split(buf, n, len) ==
    Cons(parse_frame(SubSeq(buf, 1, len)),
         parse_elements(SubSeq(buf, len + 1, Len(buf)), n - 1))

\* the next n entries of a Map, each a key frame and a value frame
parse_pairs(buf, n) ==
    IF n = 0 THEN Ok(RespMap_new) ELSE parse_entry(buf, n, expect_length(buf).val)

parse_entry(buf, n, klen) ==
    parse_value(buf, n, klen, expect_length(SubSeq(buf, klen + 1, Len(buf))).val)

parse_value(buf, n, klen, vlen) ==
    ConsEntry(parse_frame(SubSeq(buf, 1, klen)),
              parse_frame(SubSeq(buf, klen + 1, klen + vlen)),
              parse_pairs(SubSeq(buf, klen + vlen + 1, Len(buf)), n - 1))

\* the result of decode once the frame is parsed: its bytes leave the
\* buffer, which is left alone on an error
decode_parsed(buf, len, frame) ==
    IF frame.type = "Err" THEN [res |-> frame, rest |-> buf]
    ELSE [res |-> frame, rest |-> SubSeq(buf, len + 1, Len(buf))]

decode_measured_Consume(buf, len) ==
    IF len.type = "Err"
    THEN [res |-> len, rest |-> IF buf = <<>> THEN buf ELSE Tail(buf)]
    ELSE decode_parsed(buf, len.val, parse_frame(SubSeq(buf, 1, len.val)))

\* the result of decode once expect_length has measured the frame
decode_measured(buf, len) ==
    IF len.type = "Err" THEN [res |-> len, rest |-> buf]
    ELSE decode_parsed(buf, len.val, parse_frame(SubSeq(buf, 1, len.val)))

decode_ConsumeOnIncomplete(buf) == decode_measured_Consume(buf, expect_length(buf))

\* RespDecode::decode: measure with expect_length, then parse and remove
\* exactly the frame's bytes
decode(buf) == decode_measured(buf, expect_length(buf))

\* ---------------------------------------------------------------- comparison
\* resp/mod.rs: equality, ordering and hashing of frames

\* a call either returns a value or never returns (the stack overflows)
Returns(v) == [type |-> "Returns", val |-> v]
Diverges == [type |-> "Diverges"]

\* the number of nested cmp / partial_cmp calls the stack has room for
StackDepth == 6

\* the position of a variant in the declaration of RespFrame
Disc(f) ==
    CASE f.type = "SimpleString" -> 0
      [] f.type = "Error" -> 1
      [] f.type = "Integer" -> 2
      [] f.type = "BulkString" -> 3
      [] f.type = "Array" -> 4
      [] f.type = "Null" -> 5
      [] f.type = "Boolean" -> 6
      [] f.type = "Double" -> 7
      [] f.type = "Map" -> 8
      [] f.type = "Set" -> 9

\* Ord for integers
IntCmp(x, y) == IF x < y THEN "Less" ELSE IF x = y THEN "Equal" ELSE "Greater"

\* Ord for String and Vec<u8>: lexicographic by byte
BytesCmp(x, y) ==
    IF x = y THEN "Equal" ELSE IF StrLess(x, y) THEN "Less" ELSE "Greater"

\* f64 ==: NaN equals nothing, 0.0 equals -0.0
F64_eq(x, y) ==
    IF x.kind = "nan" \/ y.kind = "nan" THEN FALSE
    ELSE IF x.kind = "fin" /\ y.kind = "fin"
    THEN x.digits = y.digits /\ x.scale = y.scale /\ (x.neg = y.neg \/ x.digits = 0)
    ELSE x.kind = y.kind /\ x.neg = y.neg

\* PartialEq for Nf64
Nf64_eq(x, y) == F64_eq(x, y) \/ (x.kind = "nan" /\ y.kind = "nan")

RECURSIVE Nf64_cmp(_, _, _), Nf64_partial_cmp(_, _, _)
\* PartialOrd for Nf64: Some(self.cmp(other))
Nf64_partial_cmp(x, y, depth) ==
    IF depth = 0 THEN Diverges
    ELSE LET c == Nf64_cmp(x, y, depth - 1)
         IN  IF c.type = "Diverges" THEN Diverges ELSE Returns(Some(c.val))

\* Ord for Nf64: self.partial_cmp(other).unwrap()
Nf64_cmp(x, y, depth) ==
    IF depth = 0 THEN Diverges
    ELSE LET p == Nf64_partial_cmp(x, y, depth - 1)
         IN  IF p.type = "Diverges" THEN Diverges ELSE Returns(p.val.val)

RECURSIVE RespSet_cmp(_, _, _), RespSet_partial_cmp(_, _, _)
\* PartialOrd for RespSet: Some(self.cmp(other))
RespSet_partial_cmp(x, y, depth) ==
    IF depth = 0 THEN Diverges
    ELSE LET c == RespSet_cmp(x, y, depth - 1)
         IN  IF c.type = "Diverges" THEN Diverges ELSE Returns(Some(c.val))

\* Ord for RespSet: self.partial_cmp(other).unwrap()
RespSet_cmp(x, y, depth) ==
    IF depth = 0 THEN Diverges
    ELSE LET p == RespSet_partial_cmp(x, y, depth - 1)
         IN  IF p.type = "Diverges" THEN Diverges ELSE Returns(p.val.val)

RECURSIVE RespFrame_cmp(_, _), Vec_cmp(_, _), BTreeMap_cmp(_, _)
\* derived Ord for RespFrame: by variant, then by payload
RespFrame_cmp(a, b) ==
    IF Disc(a) # Disc(b) THEN Returns(IntCmp(Disc(a), Disc(b)))
    ELSE CASE a.type \in {"SimpleString", "Error", "BulkString"} ->
                  Returns(BytesCmp(a.val, b.val))
           [] a.type = "Integer" -> Returns(IntCmp(a.val, b.val))
           [] a.type = "Array" -> Vec_cmp(a.val, b.val)
           [] a.type = "Null" -> Returns("Equal")
           [] a.type = "Boolean" ->
                  Returns(IF a.val = b.val THEN "Equal"
                          ELSE IF b.val THEN "Less" ELSE "Greater")
           [] a.type = "Double" -> Nf64_cmp(a.val, b.val, StackDepth)
           [] a.type = "Map" -> BTreeMap_cmp(a.val, b.val)
           [] a.type = "Set" -> RespSet_cmp(a.val, b.val, StackDepth)

\* Ord for Vec<RespFrame>: lexicographic
Vec_cmp(x, y) ==
    IF x = <<>> THEN Returns(IF y = <<>> THEN "Equal" ELSE "Less")
    ELSE IF y = <<>> THEN Returns("Greater")
    ELSE LET c == RespFrame_cmp(Head(x), Head(y))
         IN  IF c.type = "Diverges" \/ c.val # "Equal" THEN c
             ELSE Vec_cmp(Tail(x), Tail(y))

\* Ord for BTreeMap<String, RespFrame>: lexicographic over the entries
BTreeMap_cmp(x, y) ==
    IF x = <<>> THEN Returns(IF y = <<>> THEN "Equal" ELSE "Less")
    ELSE IF y = <<>> THEN Returns("Greater")
    ELSE LET k == BytesCmp(Head(x)[1], Head(y)[1])
             c == RespFrame_cmp(Head(x)[2], Head(y)[2])
         IN  IF k # "Equal" THEN Returns(k)
             ELSE IF c.type = "Diverges" \/ c.val # "Equal" THEN c
             ELSE BTreeMap_cmp(Tail(x), Tail(y))

RECURSIVE insert_tail(_, _)
\* one step of the insertion sort: x moves left past the greater elements
insert_tail(sorted, x) ==
    IF sorted = <<>> THEN Returns(<<x>>)
    ELSE LET last == sorted[Len(sorted)]
             c == RespFrame_cmp(x, last)
             r == insert_tail(SubSeq(sorted, 1, Len(sorted) - 1), x)
         IN  IF c.type = "Diverges" THEN Diverges
             ELSE IF c.val # "Less" THEN Returns(Append(sorted, x))
             ELSE IF r.type = "Diverges" THEN Diverges
             ELSE Returns(Append(r.val, last))

RECURSIVE sort(_)
\* <[RespFrame]>::sort (insertion sort, as for every short slice)
sort(v) ==
    IF v = <<>> THEN Returns(<<>>)
    ELSE LET front == sort(SubSeq(v, 1, Len(v) - 1))
         IN  IF front.type = "Diverges" THEN Diverges
             ELSE insert_tail(front.val, v[Len(v)])

RECURSIVE RespFrame_eq(_, _), Vec_eq(_, _), BTreeMap_eq(_, _), RespSet_eq(_, _)
\* derived PartialEq for RespFrame
RespFrame_eq(a, b) ==
    IF Disc(a) # Disc(b) THEN Returns(FALSE)
    ELSE CASE a.type = "Array" -> Vec_eq(a.val, b.val)
           [] a.type = "Double" -> Returns(Nf64_eq(a.val, b.val))
           [] a.type = "Map" -> BTreeMap_eq(a.val, b.val)
           [] a.type = "Set" -> RespSet_eq(a.val, b.val)
           [] OTHER -> Returns(a = b)

\* PartialEq for Vec<RespFrame>
Vec_eq(x, y) ==
    IF Len(x) # Len(y) THEN Returns(FALSE)
    ELSE IF x = <<>> THEN Returns(TRUE)
    ELSE LET e == RespFrame_eq(Head(x), Head(y))
         IN  IF e.type = "Diverges" \/ ~e.val THEN e
             ELSE Vec_eq(Tail(x), Tail(y))

\* PartialEq for BTreeMap<String, RespFrame>
BTreeMap_eq(x, y) ==
    IF Len(x) # Len(y) THEN Returns(FALSE)
    ELSE IF x = <<>> THEN Returns(TRUE)
    ELSE LET e == RespFrame_eq(Head(x)[2], Head(y)[2])
         IN  IF Head(x)[1] # Head(y)[1] THEN Returns(FALSE)
             ELSE IF e.type = "Diverges" \/ ~e.val THEN e
             ELSE BTreeMap_eq(Tail(x), Tail(y))

\* PartialEq for RespSet: sort a copy of each side, compare the copies
RespSet_eq(x, y) ==
    LET self_sorted == sort(x)
        other_sorted == sort(y)
    IN  IF self_sorted.type = "Diverges" \/ other_sorted.type = "Diverges"
        THEN Diverges
        ELSE Vec_eq(self_sorted.val, other_sorted.val)

RECURSIVE le_bytes(_, _)
\* the n low bytes of v >= 0, the least significant first
le_bytes(v, n) ==
    IF n = 0 THEN <<>> ELSE <<v % 256>> \o le_bytes(v \div 256, n - 1)

\* Hasher::write_u64, write_usize, write_isize of a value >= 0: 8 bytes
write_u64(v) == le_bytes(v, 8)

\* Hasher::write_i64: 8 bytes, two's complement
write_i64(v) ==
    IF v >= 0 THEN le_bytes(v, 8)
    ELSE [i \in 1..8 |-> 255 - le_bytes(0 - v - 1, 8)[i]]

\* f64::to_bits as the 8 bytes written to the hasher: one pattern for
\* each value, 0.0 and -0.0 apart by the sign bit. The bytes of the
\* zeros and of the infinities are those of IEEE 754; for the other
\* values digits, scale and sign stand for mantissa, exponent and sign.
to_bits(x) ==
    IF x.kind = "inf"
    THEN <<0, 0, 0, 0, 0, 0, 240, IF x.neg THEN 255 ELSE 127>>
    ELSE le_bytes(x.digits, 5)
            \o <<x.scale, IF x.digits = 0 THEN 0 ELSE 1, IF x.neg THEN 128 ELSE 0>>

RECURSIVE RespFrame_hash(_), hash_each(_), hash_entries(_)
\* derived Hash for RespFrame: the bytes written to the hasher, the variant
\* first (8 bytes); a String ends with 0xFF, a Vec starts with its length
\* (8 bytes), an Integer is 8 bytes
RespFrame_hash(f) ==
    LET payload ==
        CASE f.type \in {"SimpleString", "Error"} -> Returns(f.val \o <<255>>)
          [] f.type = "Integer" -> Returns(write_i64(f.val))
          [] f.type = "BulkString" -> Returns(write_u64(Len(f.val)) \o f.val)
          [] f.type = "Array" ->
                 LET h == hash_each(f.val)
                 IN  IF h.type = "Diverges" THEN h
                     ELSE Returns(write_u64(Len(f.val)) \o h.val)
          [] f.type = "Null" -> Returns(<<>>)
          [] f.type = "Boolean" -> Returns(IF f.val THEN <<1>> ELSE <<0>>)
          [] f.type = "Double" ->
                 Returns(IF f.val.kind = "nan" THEN <<255>> ELSE to_bits(f.val))
          [] f.type = "Map" ->
                 LET h == hash_entries(f.val)
                 IN  IF h.type = "Diverges" THEN h
                     ELSE Returns(write_u64(Len(f.val)) \o h.val)
          [] f.type = "Set" ->
                 LET sorted_elements == sort(f.val)
                 IN  IF sorted_elements.type = "Diverges" THEN Diverges
                     ELSE hash_each(sorted_elements.val)
    IN  IF payload.type = "Diverges" THEN Diverges
        ELSE Returns(write_u64(Disc(f)) \o payload.val)

hash_each(v) ==
    IF v = <<>> THEN Returns(<<>>)
    ELSE LET h == RespFrame_hash(Head(v))
             r == hash_each(Tail(v))
         IN  IF h.type = "Diverges" THEN Diverges
             ELSE IF r.type = "Diverges" THEN Diverges
             ELSE Returns(h.val \o r.val)

hash_entries(m) ==
    IF m = <<>> THEN Returns(<<>>)
    ELSE LET h == RespFrame_hash(Head(m)[2])
             r == hash_entries(Tail(m))
         IN  IF h.type = "Diverges" THEN Diverges
             ELSE IF r.type = "Diverges" THEN Diverges
             ELSE Returns(Head(m)[1] \o <<255>> \o h.val \o r.val)

\* the elements of elems that equal item
equal_elements(elems, item) == {e \in elems : RespFrame_eq(e, item) = Returns(TRUE)}

\* the outcomes of the lookup of item among elems once item is hashed to
\* h. An element that equals item and wrote the same bytes to the hasher
\* is found. One that equals item and wrote other bytes is compared with
\* item only when the two hashes pick the same shard and the same bucket
\* tag, which depends on the keys of the RandomState: found or not.
contains_hashed(elems, item, h) ==
    IF h.type = "Diverges" THEN {Diverges}
    ELSE IF \E e \in equal_elements(elems, item) : RespFrame_hash(e) = h
    THEN {Returns(TRUE)}
    ELSE IF equal_elements(elems, item) # {}
    THEN {Returns(FALSE), Returns(TRUE)}
    ELSE {Returns(FALSE)}

\* the outcomes of DashSet::contains
DashSet_contains(elems, item) == contains_hashed(elems, item, RespFrame_hash(item))

\* the outcomes of DashSet::new, insert(memb), then contains(item)
insert_then_contains(memb, item) ==
    IF RespFrame_hash(memb).type = "Diverges" THEN {Diverges}
    ELSE DashSet_contains({memb}, item)

\* Backend::sadd: set.insert(memb) hashes memb, then the new set replaces
\* the set of the key; ret is Diverges when the call does not return
sadd(d, key, memb) ==
    IF RespFrame_hash(memb).type = "Diverges"
    THEN [dset |-> d, ret |-> Diverges]
    ELSE [dset |-> DashMap_insert(d, key, {memb}),
          ret  |-> IF key \in DOMAIN d THEN Some(1) ELSE Some(0)]

\* what Backend::sismember returns when contains gave r
some_if_found(r) ==
    IF r.type = "Diverges" THEN Diverges ELSE IF r.val THEN Some(1) ELSE None

\* the outcomes of Backend::sismember
sismember(d, key, item) ==
    IF key \in DOMAIN d
    THEN {some_if_found(r) : r \in DashSet_contains(d[key], item)}
    ELSE {None}

\* ---------------------------------------------------------------- state
VARIABLES
    map,        \* BackendInner.map : key -> frame
    hmap,       \* BackendInner.hmap: key -> (field -> frame)
    dset,       \* BackendInner.dset: key -> set of frames
    reply,      \* the frame returned by the last execute
    ret,        \* what the backend call of the last execute returned
    lastCmd,    \* the command executed last
    setHist,    \* history: key -> value of the most recent Set
    hsetHist,   \* history: <<key, field>> -> value of the most recent HSet
    sadded,     \* history: the <<key, item>> pairs ever Sadd-ed
    writes,     \* number of Set/HSet/Sadd executed
    req,        \* the frame handed to the command layer
    conv,       \* the result of converting req into a command
    pc,         \* position of the request pipeline
    codec,      \* a frame on its way through encode, the wire and decode
    cmp,        \* a comparison, equality test or hash of frames
    conn,       \* one connection served by process_conn
    conc        \* execution contexts calling the backend concurrently

store == <<map, hmap, dset>>
hist == <<setHist, hsetHist, sadded, writes>>
pipe == <<req, conv, pc>>
others == <<codec, cmp, conn, conc>>
vars == <<map, hmap, dset, reply, ret, lastCmd, setHist, hsetHist, sadded, writes,
          req, conv, pc, codec, cmp, conn, conc>>

\* Backend::new
Backend_new ==
    /\ map = EmptyMap
    /\ hmap = EmptyMap
    /\ dset = EmptyMap

NoHistory ==
    /\ setHist = EmptyMap
    /\ hsetHist = EmptyMap
    /\ sadded = {}

OthersIdle ==
    /\ codec = None
    /\ cmp = None
    /\ conn = None
    /\ conc = None

NothingExecuted ==
    /\ writes = 0
    /\ reply = None
    /\ ret = None
    /\ lastCmd = [type |-> "None"]

Init ==
    /\ Backend_new
    /\ NoHistory
    /\ NothingExecuted
    /\ req = None
    /\ conv = None
    /\ pc = "exec"
    /\ OthersIdle

\* ---------------------------------------------------------------- executors
OrNull(r) == IF r.type = "Some" THEN r.val ELSE RespNull

Get_execute(key) ==
    /\ ret' = get(map, key)
    /\ reply' = OrNull(ret')
    /\ lastCmd' = [type |-> "Get", key |-> key]
    /\ UNCHANGED <<store, hist>>

Set_execute(key, value) ==
    /\ writes < MaxWrites
    /\ map' = set(map, key, value)
    /\ ret' = Unit
    /\ reply' = RESP_OK
    /\ lastCmd' = [type |-> "Set", key |-> key, value |-> value]
    /\ setHist' = [k \in (DOMAIN setHist) \cup {key} |->
                      IF k = key THEN value ELSE setHist[k]]
    /\ writes' = writes + 1
    /\ UNCHANGED <<hmap, dset, hsetHist, sadded>>

HGet_execute_OrDefault(key, field) ==
    /\ ret' = hget(hmap, key, field)
    /\ reply' = OrNull(ret')
    /\ lastCmd' = [type |-> "HGet", key |-> key, field |-> field]
    /\ hmap' = entry_or_default(hmap, key)
    /\ UNCHANGED <<map, dset, hist>>

HGet_execute(key, field) ==
    /\ ret' = hget(hmap, key, field)
    /\ reply' = OrNull(ret')
    /\ lastCmd' = [type |-> "HGet", key |-> key, field |-> field]
    /\ UNCHANGED <<store, hist>>

HGetAll_execute(key) ==
    /\ IF key \in DOMAIN hmap
       THEN \E order \in IterOrders(DOMAIN hmap[key]) :
                reply' = RespMap(collect_map(hmap[key], order, RespMap_new))
       ELSE reply' = RespArray(<<>>)
    /\ ret' = Unit
    /\ lastCmd' = [type |-> "HGetAll", key |-> key]
    /\ UNCHANGED <<store, hist>>

HSet_execute(key, field, value) ==
    /\ writes < MaxWrites
    /\ hmap' = hset(hmap, key, field, value)
    /\ ret' = Unit
    /\ reply' = RESP_OK
    /\ lastCmd' = [type |-> "HSet", key |-> key, field |-> field, value |-> value]
    /\ hsetHist' = [p \in (DOMAIN hsetHist) \cup {<<key, field>>} |->
                       IF p = <<key, field>> THEN value ELSE hsetHist[p]]
    /\ writes' = writes + 1
    /\ UNCHANGED <<map, dset, setHist, sadded>>

HMGet_execute(key, fields) ==
    /\ ret' = hmget(hmap, key, fields)
    /\ reply' = IF ret'.type = "Some" THEN RespArray(ret'.val) ELSE RespArray(<<>>)
    /\ lastCmd' = [type |-> "HMGet", key |-> key, fields |-> fields]
    /\ UNCHANGED <<store, hist>>

Echo_execute(key) ==
    /\ ret' = echo(key)
    /\ reply' = OrNull(ret')
    /\ lastCmd' = [type |-> "Echo", key |-> key]
    /\ UNCHANGED <<store, hist>>

\* Integer(n) for Some(n)
IntegerOrNull(r) == IF r.type = "Some" THEN Integer(r.val) ELSE RespNull

\* the replies of Sadd to what the backend returned: the number itself, or
\* Integer(1) as tests::test_sadd expects of the first Sadd on a key
Sadd_replies(r) == {IntegerOrNull(r), Integer(1)}

\* a call that does not return takes no step
Sadd_execute(key, item) ==
    /\ writes < MaxWrites
    /\ sadd(dset, key, item).ret # Diverges
    /\ dset' = sadd(dset, key, item).dset
    /\ ret' = sadd(dset, key, item).ret
    /\ reply' \in Sadd_replies(ret')
    /\ lastCmd' = [type |-> "Sadd", key |-> key, item |-> item,
                   present |-> (<<key, item>> \in sadded)]
    /\ sadded' = sadded \cup {<<key, item>>}
    /\ writes' = writes + 1
    /\ UNCHANGED <<map, hmap, setHist, hsetHist>>

Sismember_execute(key, item) ==
    /\ ret' \in sismember(dset, key, item) \ {Diverges}
    /\ reply' = IntegerOrNull(ret')
    /\ lastCmd' = [type |-> "Sismember", key |-> key, item |-> item]
    /\ UNCHANGED <<store, hist>>

Unrecognized_execute ==
    /\ ret' = Unit
    /\ reply' = RESP_OK
    /\ lastCmd' = [type |-> "Unrecognized"]
    /\ UNCHANGED <<store, hist>>

\* ---------------------------------------------------------------- Spec
\* Command::execute applied to any typed command, in any order
DoGet == \E k \in Keys : Get_execute(k) /\ UNCHANGED <<pipe, others>>
DoSet == \E k \in Keys, v \in Vals : Set_execute(k, v) /\ UNCHANGED <<pipe, others>>
DoHGet == \E k \in Keys, f \in Fields : HGet_execute(k, f) /\ UNCHANGED <<pipe, others>>
DoHSet == \E k \in Keys, f \in Fields, v \in Vals : HSet_execute(k, f, v) /\ UNCHANGED <<pipe, others>>
DoHGetAll == \E k \in Keys : HGetAll_execute(k) /\ UNCHANGED <<pipe, others>>
DoHMGet == \E k \in Keys, fs \in FieldLists : HMGet_execute(k, fs) /\ UNCHANGED <<pipe, others>>
DoEcho == \E k \in Keys : Echo_execute(k) /\ UNCHANGED <<pipe, others>>
DoSadd == \E k \in Keys, v \in Vals : Sadd_execute(k, v) /\ UNCHANGED <<pipe, others>>
DoSismember == \E k \in Keys, v \in Vals : Sismember_execute(k, v) /\ UNCHANGED <<pipe, others>>
DoUnrecognized == Unrecognized_execute /\ UNCHANGED <<pipe, others>>

Next ==
    \/ DoGet
    \/ DoSet
    \/ DoHGet
    \/ DoHSet
    \/ DoHGetAll
    \/ DoHMGet
    \/ DoEcho
    \/ DoSadd
    \/ DoSismember
    \/ DoUnrecognized

Spec == Init /\ [][Next]_vars

\* ---------------------------------------------------------------- SpecCmd
\* one request frame taken through the command layer and, when it converts,
\* executed against the backend (the path of the tests of cmd/mod.rs)
Name_noop == <<110, 111, 111, 112>>
Name_gets == <<103, 101, 116, 115>>
Name_GET == <<71, 69, 84>>
Name_HSet == <<72, 83, 101, 116>>
ReqNames == KnownNames \cup {Name_noop, Name_gets, Name_GET, Name_HSet, <<>>}
ArgAtoms == {BulkString(KeyOf(1)), BulkString(Field_b), Val_2,
             BulkString(<<255>>)}
ArgLists == UNION {[1..n -> ArgAtoms] : n \in 0..MaxArgs}
Requests ==
    {RespArray(<<BulkString(n)>> \o args) : n \in ReqNames, args \in ArgLists}
    \cup {RespArray(<<>>), RespArray(<<Val_2>>),
          RespArray(<<SimpleString(Name_get), BulkString(KeyOf(1))>>),
          BulkString(Name_get), SimpleString(Name_get), Val_2, RespNull}

\* a backend that already holds one entry in each namespace
Backend_seeded ==
    /\ map = set(EmptyMap, KeyOf(1), Val_v1)
    /\ hmap = hset(EmptyMap, KeyOf(1), Field_b, Val_v1)
    /\ dset = sadd(EmptyMap, KeyOf(1), Val_v1).dset
    /\ setHist = [k \in {KeyOf(1)} |-> Val_v1]
    /\ hsetHist = [q \in {<<KeyOf(1), Field_b>>} |-> Val_v1]
    /\ sadded = {<<KeyOf(1), Val_v1>>}

InitCmd ==
    /\ (Backend_new /\ NoHistory) \/ Backend_seeded
    /\ NothingExecuted
    /\ req \in Requests
    /\ conv = None
    /\ pc = "recv"
    /\ OthersIdle

Convert ==
    /\ pc = "recv"
    /\ conv' = Command_try_from(req)
    /\ pc' = "converted"
    /\ UNCHANGED <<store, hist, reply, ret, lastCmd, req, others>>

\* a conversion error returns before anything is executed
Reject ==
    /\ pc = "converted"
    /\ conv.type = "Err"
    /\ pc' = "rejected"
    /\ UNCHANGED <<store, hist, reply, ret, lastCmd, req, conv, others>>

Converted(type) ==
    /\ pc = "converted"
    /\ conv.type = "Ok"
    /\ conv.val.type = type
    /\ pc' = "done"
    /\ UNCHANGED <<req, conv, others>>

RunGet == Converted("Get") /\ Get_execute(conv.val.key)
RunSet == Converted("Set") /\ Set_execute(conv.val.key, conv.val.arg)
RunHGet == Converted("HGet") /\ HGet_execute(conv.val.key, conv.val.field)
RunHSet == Converted("HSet") /\ HSet_execute(conv.val.key, conv.val.field, conv.val.value)
RunHGetAll == Converted("HGetAll") /\ HGetAll_execute(conv.val.key)
RunHMGet == Converted("HMGet") /\ HMGet_execute(conv.val.key, conv.val.fields)
RunEcho == Converted("Echo") /\ Echo_execute(conv.val.key)
RunSadd == Converted("Sadd") /\ Sadd_execute(conv.val.key, conv.val.arg)
RunSismember == Converted("Sismember") /\ Sismember_execute(conv.val.key, conv.val.arg)
RunUnrecognized == Converted("Unrecognized") /\ Unrecognized_execute

NextCmd ==
    \/ Convert
    \/ Reject
    \/ RunGet
    \/ RunSet
    \/ RunHGet
    \/ RunHSet
    \/ RunHGetAll
    \/ RunHMGet
    \/ RunEcho
    \/ RunSadd
    \/ RunSismember
    \/ RunUnrecognized

SpecCmd == InitCmd /\ [][NextCmd]_vars

\* ---------------------------------------------------------------- claims
\* C1: Get(k) replies the value of the most recent Set(k, v), and Null when
\* no Set(k, .) was ever executed; every Set replies SimpleString "OK".
C1_GetLastWriterWins ==
    /\ lastCmd.type = "Get" =>
          reply = IF lastCmd.key \in DOMAIN setHist
                  THEN setHist[lastCmd.key] ELSE RespNull
    /\ lastCmd.type = "Set" => reply = RESP_OK

\* a Get of a key that was Set at least twice
C1_Witness ==
    /\ lastCmd.type = "Get"
    /\ DOMAIN setHist = {lastCmd.key}
    /\ reply = setHist[lastCmd.key]
    /\ writes >= 2
    /\ hsetHist = EmptyMap
    /\ sadded = {}

\* C2: HGet(k, f) replies the value of the most recent HSet(k, f, v), and
\* Null when (k, f) was never HSet; an outer key that has been HSet stays in
\* the hash namespace.
C2_HGetLastWriterWins ==
    /\ lastCmd.type = "HGet" =>
          reply = IF <<lastCmd.key, lastCmd.field>> \in DOMAIN hsetHist
                  THEN hsetHist[<<lastCmd.key, lastCmd.field>>] ELSE RespNull
    /\ \A p \in DOMAIN hsetHist : p[1] \in DOMAIN hmap

\* an HGet of a field that was HSet at least twice
C2_Witness ==
    /\ lastCmd.type = "HGet"
    /\ DOMAIN hsetHist = {<<lastCmd.key, lastCmd.field>>}
    /\ reply = hsetHist[<<lastCmd.key, lastCmd.field>>]
    /\ writes >= 2
    /\ setHist = EmptyMap
    /\ sadded = {}

\* the values, in request order, of the requested fields that were HSet under key
RECURSIVE PresentValues(_, _)
PresentValues(key, fields) ==
    IF fields = <<>> THEN <<>>
    ELSE (IF <<key, Head(fields)>> \in DOMAIN hsetHist
          THEN <<hsetHist[<<key, Head(fields)>>]>> ELSE <<>>)
         \o PresentValues(key, Tail(fields))

\* C3: HMGet(k, fields) replies the Array of the current values of the
\* requested fields that are present, in request order, without padding for
\* the absent ones; for a key never HSet the Array is empty.
C3_HMGetOmitsAbsent ==
    lastCmd.type = "HMGet" =>
        /\ reply = RespArray(PresentValues(lastCmd.key, lastCmd.fields))
        /\ Len(reply.val) =
              Cardinality({i \in DOMAIN lastCmd.fields :
                              <<lastCmd.key, lastCmd.fields[i]>> \in DOMAIN hsetHist})
        /\ \A i \in 1..Len(reply.val) : reply.val[i] # RespNull

\* an HMGet of a present and an absent field of a present key
C3_Witness ==
    /\ lastCmd.type = "HMGet"
    /\ lastCmd.key \in DOMAIN hmap
    /\ Len(lastCmd.fields) = 2
    /\ <<lastCmd.key, lastCmd.fields[1]>> \in DOMAIN hsetHist
    /\ <<lastCmd.key, lastCmd.fields[2]>> \notin DOMAIN hsetHist
    /\ Len(reply.val) = 1

FieldsSetUnder(key) == {p[2] : p \in {q \in DOMAIN hsetHist : q[1] = key}}

\* C4: HGetAll(k) replies the Map of exactly the fields HSet under k with
\* their most recent values, keys in sorted order whatever the order they
\* were HSet or visited in; for a key never HSet it replies an empty Array.
C4_HGetAllSortedMap ==
    lastCmd.type = "HGetAll" =>
        IF FieldsSetUnder(lastCmd.key) = {}
        THEN reply = RespArray(<<>>)
        ELSE /\ reply.type = "Map"
             /\ Len(reply.val) = Cardinality(FieldsSetUnder(lastCmd.key))
             /\ {reply.val[i] : i \in 1..Len(reply.val)} =
                   {<<f, hsetHist[<<lastCmd.key, f>>]>> : f \in FieldsSetUnder(lastCmd.key)}
             /\ \A i, j \in 1..Len(reply.val) :
                   i < j => StrLess(reply.val[i][1], reply.val[j][1])

\* an HGetAll of a key holding two fields
C4_Witness ==
    /\ lastCmd.type = "HGetAll"
    /\ reply.type = "Map"
    /\ Len(reply.val) = 2
    /\ Cardinality(FieldsSetUnder(lastCmd.key)) = 2

\* C5: Sadd(k, x) reports 1 when x was not yet a member of the set at k and
\* 0 when it already was.
C5_SaddReportsNewness ==
    lastCmd.type = "Sadd" => ret = Some(IF lastCmd.present THEN 0 ELSE 1)

\* C6: every item Sadd-ed to k is a member of the set at k; a later Sadd on
\* the key removes no earlier member.
C6_SaddKeepsMembers ==
    \A p \in sadded : p[1] \in DOMAIN dset /\ p[2] \in dset[p[1]]

\* C7: Sismember(k, x) reports 1 when x has been Sadd-ed to k and 0
\* otherwise; it never reports absence.
C7_SismemberReportsMembership ==
    lastCmd.type = "Sismember" =>
        ret = Some(IF <<lastCmd.key, lastCmd.item>> \in sadded THEN 1 ELSE 0)

ReadOnlyTypes == {"Get", "HGet", "HGetAll", "HMGet", "Echo", "Sismember", "Unrecognized"}

\* C8: executing Get, HGet, HGetAll, HMGet, Echo, Sismember or Unrecognized
\* leaves map, hmap and dset unchanged; a read of a missing outer key creates
\* no entry for it.
C8_ReadsLeaveStoreUnchanged ==
    [][lastCmd'.type \in ReadOnlyTypes =>
          (map' = map /\ hmap' = hmap /\ dset' = dset)]_vars

\* a hash read of a missing outer key of a non-empty store
C8_Witness ==
    /\ lastCmd.type \in {"HGet", "HGetAll", "HMGet"}
    /\ lastCmd.key \notin DOMAIN hmap
    /\ DOMAIN hmap # {}
    /\ DOMAIN map # {}

\* function g equals function f except possibly at key
SameExceptAt(f, g, key) ==
    /\ DOMAIN g = (DOMAIN f) \cup {key}
    /\ \A x \in (DOMAIN f) \ {key} : g[x] = f[x]

\* C9: Set(k, .) changes only map[k], HSet(k, f, .) only hmap[k][f] and
\* Sadd(k, .) only dset[k]; every other key and namespace is left unchanged.
C9_WritesTouchOnlyTheirSlot ==
    [][/\ lastCmd'.type = "Set" =>
            /\ hmap' = hmap /\ dset' = dset
            /\ SameExceptAt(map, map', lastCmd'.key)
            /\ map'[lastCmd'.key] = lastCmd'.value
       /\ lastCmd'.type = "HSet" =>
            /\ map' = map /\ dset' = dset
            /\ SameExceptAt(hmap, hmap', lastCmd'.key)
            /\ SameExceptAt(IF lastCmd'.key \in DOMAIN hmap
                            THEN hmap[lastCmd'.key] ELSE EmptyMap,
                            hmap'[lastCmd'.key], lastCmd'.field)
            /\ hmap'[lastCmd'.key][lastCmd'.field] = lastCmd'.value
       /\ lastCmd'.type = "Sadd" =>
            /\ map' = map /\ hmap' = hmap
            /\ SameExceptAt(dset, dset', lastCmd'.key)]_vars

\* after a write, its key is present in two namespaces with unrelated values
C9_Witness ==
    /\ lastCmd.type \in {"Set", "HSet", "Sadd"}
    /\ lastCmd.key \in ((DOMAIN map) \cap (DOMAIN dset)) \cup ((DOMAIN hmap) \cap (DOMAIN dset))
    /\ \A k \in (DOMAIN map) \cap (DOMAIN dset) : map[k] \notin dset[k]
    /\ \A k \in (DOMAIN hmap) \cap (DOMAIN dset) :
          \A f \in DOMAIN hmap[k] : hmap[k][f] \notin dset[k]

NamesNoKnownCommand(f) ==
    /\ f.type = "Array"
    /\ f.val # <<>>
    /\ f.val[1].type = "BulkString"
    /\ to_ascii_lowercase(f.val[1].val) \notin KnownNames

\* C10: an Array whose first element is a BulkString naming no known command
\* converts to Unrecognized, not to an error, whatever its other elements
\* are; executing Unrecognized replies "OK" and leaves the backend untouched.
C10_UnknownNameIsUnrecognized ==
    /\ [](pc # "recv" /\ NamesNoKnownCommand(req) => conv = Ok(Unrecognized))
    /\ [][pc = "converted" /\ conv = Ok(Unrecognized) =>
             /\ pc' = "done"
             /\ reply' = RESP_OK
             /\ map' = map /\ hmap' = hmap /\ dset' = dset]_vars

\* an unknown name followed by arguments, executed against a non-empty backend
C10_Witness ==
    /\ pc = "done"
    /\ NamesNoKnownCommand(req)
    /\ Len(req.val) >= 3
    /\ lastCmd.type = "Unrecognized"
    /\ reply = RESP_OK
    /\ DOMAIN map # {}

\* the request is an Array that starts with a BulkString
HasName(f) == f.type = "Array" /\ f.val # <<>> /\ f.val[1].type = "BulkString"

\* the request with its name in lower case
Lowered(f) == RespArray(<<BulkString(to_ascii_lowercase(f.val[1].val))>> \o Tail(f.val))

\* C11: command names are matched case-insensitively: a request whose name
\* differs from a known name only in ASCII letter case converts to the same
\* typed command as the request with the all-lowercase name.
C11_NamesMatchedCaseInsensitively ==
    (/\ pc # "recv"
     /\ HasName(req)
     /\ to_ascii_lowercase(req.val[1].val) \in KnownNames
     /\ Command_try_from(Lowered(req)).type = "Ok")
    => conv = Command_try_from(Lowered(req))

\* the number of arguments of a fixed-arity command
ExpectedArgs(name) ==
    CASE name = Name_get -> 1
      [] name = Name_set -> 2
      [] name = Name_hget -> 2
      [] name = Name_hset -> 3
      [] name = Name_hgetall -> 1
      [] name = Name_echo -> 1
      [] name = Name_sadd -> 2
      [] name = Name_sismember -> 2

FixedArityNames == KnownNames \ {Name_hmget}

\* C12: for a fixed-arity command, an Array whose length is not 1 plus the
\* expected argument count is rejected with InvalidArgument; it yields no
\* command and nothing is executed against the backend.
C12_WrongArityRejected ==
    (/\ pc # "recv"
     /\ HasName(req)
     /\ req.val[1].val \in FixedArityNames
     /\ Len(req.val) # 1 + ExpectedArgs(req.val[1].val))
    => /\ conv = Err("InvalidArgument")
       /\ pc = "converted" \/ pc = "rejected"
       /\ lastCmd.type = "None"
       /\ writes = 0

\* an hget with one argument too many, rejected
C12_Witness ==
    /\ pc = "rejected"
    /\ HasName(req)
    /\ req.val[1].val = Name_hget
    /\ Len(req.val) = 4
    /\ conv = Err("InvalidArgument")
    /\ DOMAIN hmap # {}

\* C13: every HMGet command carries at least one field; an hmget Array with
\* a key but no field, or with no key, is rejected with InvalidArgument.
C13_HMGetNeedsAField ==
    /\ (pc # "recv" /\ conv.type = "Ok" /\ conv.val.type = "HMGet")
          => Len(conv.val.fields) >= 1
    /\ (pc # "recv" /\ HasName(req) /\ req.val[1].val = Name_hmget
        /\ Len(req.val) <= 2)
          => conv = Err("InvalidArgument")

\* C14: a frame that is not an Array, an empty Array, and an Array whose
\* first element is not a BulkString all fail to convert, with InvalidCommand.
C14_NotACommandIsInvalidCommand ==
    (pc # "recv" /\ ~HasName(req)) => conv = Err("InvalidCommand")

\* a frame that is not an Array, rejected
C14_Witness ==
    /\ pc = "rejected"
    /\ req.type \notin {"Array", "None"}
    /\ conv = Err("InvalidCommand")

\* a known command with the right number of elements
RightLength(f) ==
    /\ HasName(f)
    /\ f.val[1].val \in KnownNames
    /\ IF f.val[1].val = Name_hmget THEN Len(f.val) >= 3
       ELSE Len(f.val) = 1 + ExpectedArgs(f.val[1].val)

\* the positions of the request that hold string-valued arguments
StringPositions(f) ==
    LET name == f.val[1].val
    IN  IF name = Name_hmget THEN 2..Len(f.val)
        ELSE IF name \in {Name_hget, Name_hset} THEN {2, 3}
        ELSE {2}

NonBulkPositions(f) == {i \in StringPositions(f) : f.val[i].type # "BulkString"}

\* C15 as claimed: a frame that is not a BulkString in a string-valued
\* argument position always fails with InvalidArgument, and the value
\* position of hset accepts any frame variant.
C15_NonBulkIsInvalidArgument ==
    /\ (pc # "recv" /\ RightLength(req) /\ NonBulkPositions(req) # {})
          => conv = Err("InvalidArgument")
    /\ (pc # "recv" /\ RightLength(req) /\ req.val[1].val = Name_hset
        /\ NonBulkPositions(req) = {}
        /\ IsUtf8(req.val[2].val) /\ IsUtf8(req.val[3].val))
          => conv = Ok([type |-> "HSet", key |-> req.val[2].val,
                        field |-> req.val[3].val, value |-> req.val[4]])

\* an hmget BulkString argument, ahead of the first one that is not a
\* BulkString, is not valid UTF-8
Utf8FailsFirst(f) ==
    /\ f.val[1].val = Name_hmget
    /\ \E j \in StringPositions(f) :
          /\ \A i \in NonBulkPositions(f) : j < i
          /\ ~IsUtf8(f.val[j].val)

\* C15 (amended): a frame that is not a BulkString in a string-valued
\* argument position always makes the conversion fail: with InvalidArgument,
\* except in hmget when the key or a field ahead of it is a BulkString that
\* is not valid UTF-8, then with Utf8Error; the value position of hset
\* accepts any frame variant.
C15_NonBulkFailsConversion ==
    /\ (pc # "recv" /\ RightLength(req) /\ NonBulkPositions(req) # {})
          => conv = Err(IF Utf8FailsFirst(req) THEN "Utf8Error"
                        ELSE "InvalidArgument")
    /\ (pc # "recv" /\ RightLength(req) /\ req.val[1].val = Name_hset
        /\ NonBulkPositions(req) = {}
        /\ IsUtf8(req.val[2].val) /\ IsUtf8(req.val[3].val))
          => conv = Ok([type |-> "HSet", key |-> req.val[2].val,
                        field |-> req.val[3].val, value |-> req.val[4]])

\* an hmget with a well-formed key and field followed by an Integer, rejected
C15_Witness ==
    /\ pc = "rejected"
    /\ RightLength(req)
    /\ req.val[1].val = Name_hmget
    /\ Len(req.val) = 4
    /\ NonBulkPositions(req) = {4}
    /\ IsUtf8(req.val[2].val) /\ IsUtf8(req.val[3].val)
    /\ conv = Err("InvalidArgument")

\* ---------------------------------------------------------------- SpecCodec
\* One frame is encoded, its bytes (followed by the start of whatever the
\* peer sends next) arrive in pieces of any size, and the receiver decodes
\* after each arrival.

MaxElems == 2

SeqsUpTo(S, n) == UNION {[1..k -> S] : k \in 0..n}

Text_OK == <<79, 75>>
Text_ERR == <<69, 82, 82>>
Text_TwoLines == <<97, 13, 10, 98>>

CodecAtoms ==
    {SimpleString(Text_OK), SimpleString(<<>>), SimpleString(Text_TwoLines),
     SimpleError(Text_ERR), SimpleError(<<13, 10>>),
     Integer(0), Integer(0 - 12), Integer(105),
     BulkString(<<>>), BulkString(KeyOf(1)), BulkString(CRLF), BulkString(<<255>>),
     RespNull, Boolean(TRUE), Boolean(FALSE),
     Double(F64_NaN), Double(F64_Inf(FALSE)), Double(F64_Inf(TRUE)),
     Double(F64_Dec(FALSE, 15, 1)), Double(F64_Dec(TRUE, 0, 0)),
     Double(F64_Dec(FALSE, 20, 0)), Double(F64_Dec(TRUE, 1025, 2))}

ElemAtoms ==
    {Integer(0 - 12), BulkString(CRLF), Double(F64_NaN), SimpleString(Text_OK)}

MapKeys == {<<97>>, <<98>>}

MapsOf ==
    UNION {{RespMap(collect_map(inner, order, RespMap_new)) :
                inner \in [K -> ElemAtoms], order \in IterOrders(K)} :
           K \in SUBSET MapKeys}

Flat ==
    {RespArray(s) : s \in SeqsUpTo(ElemAtoms, MaxElems)}
    \cup {RespSet(s) : s \in SeqsUpTo(ElemAtoms, MaxElems)}
    \cup MapsOf

Nested ==
    {RespArray(<<c, Integer(0)>>) : c \in Flat}
    \cup {RespSet(<<c>>) : c \in Flat}
    \cup {RespMap(<<<<(<<97>>), c>>>>) : c \in Flat}
    \cup {RespMap(<<<<Text_TwoLines, RespNull>>>>)}

CodecFrames == CodecAtoms \cup Flat \cup Nested

\* what the peer has already sent after the frame
Trailers == {<<>>, <<58, 49>>}

InitCodec ==
    /\ Backend_new
    /\ NoHistory
    /\ NothingExecuted
    /\ req = None
    /\ conv = None
    /\ pc = "exec"
    /\ cmp = None
    /\ conn = None
    /\ conc = None
    /\ \E f \in CodecFrames :
          codec = [pc |-> "encode", frame |-> f, wire |-> <<>>, mark |-> 0,
                   fed |-> 0, buf |-> <<>>, res |-> None]

CodecRest == <<store, hist, reply, ret, lastCmd, pipe, cmp, conn, conc>>

\* the codec state once the frame is encoded to bytes, t sent after them
Sent(c, bytes, t) ==
    [c EXCEPT !.pc = "recv", !.wire = bytes \o t, !.mark = Len(bytes)]

\* the sender encodes the frame
Encode ==
    /\ codec # None
    /\ codec.pc = "encode"
    /\ \E t \in Trailers : codec' = Sent(codec, encode(codec.frame), t)
    /\ UNCHANGED CodecRest

\* the next n bytes arrive and are appended to the receive buffer
Feed ==
    /\ codec # None
    /\ codec.pc = "recv"
    /\ \E n \in 1..(Len(codec.wire) - codec.fed) :
          codec' = [codec EXCEPT !.buf = codec.buf
                                     \o SubSeq(codec.wire, codec.fed + 1, codec.fed + n),
                                 !.fed = codec.fed + n,
                                 !.res = None]
    /\ UNCHANGED CodecRest

\* the codec state once decode has returned d
Decoded(c, d) ==
    [c EXCEPT !.res = d.res, !.buf = d.rest,
              !.pc = IF d.res.type = "Ok" THEN "decoded" ELSE "recv"]

\* the receiver calls decode on its buffer
Decode ==
    /\ codec # None
    /\ codec.pc = "recv"
    /\ codec.res = None
    /\ codec' = Decoded(codec, decode(codec.buf))
    /\ UNCHANGED CodecRest

NextCodec ==
    \/ Encode
    \/ Feed
    \/ Decode

SpecCodec == InitCodec /\ [][NextCodec]_vars

\* the frame respects the data model: no text of a SimpleString or
\* SimpleError and no Map key holds a CR-LF
RECURSIVE WellFormed(_)
WellFormed(f) ==
    CASE f.type \in {"SimpleString", "Error"} -> find_crlf(f.val) = 0
      [] f.type \in {"Array", "Set"} -> \A i \in DOMAIN f.val : WellFormed(f.val[i])
      [] f.type = "Map" ->
            \A i \in DOMAIN f.val : find_crlf(f.val[i][1]) = 0 /\ WellFormed(f.val[i][2])
      [] OTHER -> TRUE

\* C16: decoding a buffer that holds a strict prefix of a valid encoded
\* frame returns NotComplete and leaves the buffer as it was; bytes are
\* removed only once the whole frame is there, and then exactly the
\* frame's bytes are removed.
C16_PrefixIsNotComplete ==
    (codec # None /\ WellFormed(codec.frame) /\ codec.res # None) =>
        IF codec.fed < codec.mark
        THEN /\ codec.res = Err("NotComplete")
             /\ codec.buf = SubSeq(codec.wire, 1, codec.fed)
        ELSE /\ codec.res.type = "Ok"
             /\ codec.buf = SubSeq(codec.wire, codec.mark + 1, codec.fed)

\* a nested frame one byte short of complete has been decoded
C16_Witness ==
    /\ codec # None
    /\ codec.frame \in Nested
    /\ WellFormed(codec.frame)
    /\ codec.fed = codec.mark - 1
    /\ codec.res = Err("NotComplete")

\* C17: decoding the encoding of any constructible frame gives the frame
\* back, for all ten variants.
C17_RoundTripAnyFrame ==
    (codec # None /\ codec.pc = "decoded") => codec.res = Ok(codec.frame)

\* ---------------------------------------------------------------- SpecOrd
\* Two frames are compared for order, tested for equality or hashed, or
\* the elements of the first are sorted.

OrdAtoms ==
    {SimpleString(Text_OK), Integer(0 - 12), Integer(105), BulkString(KeyOf(1)),
     RespNull, Boolean(TRUE),
     Double(F64_NaN), Double(F64_Dec(FALSE, 15, 1)), Double(F64_Dec(TRUE, 0, 0)),
     Double(F64_Dec(FALSE, 0, 0)), Double(F64_Inf(FALSE))}

OrdElems ==
    {Integer(0 - 12), BulkString(KeyOf(1)), Double(F64_NaN),
     Double(F64_Dec(FALSE, 15, 1)), RespSet(<<Integer(105)>>), RespSet(<<>>)}

OrdFrames == OrdAtoms \cup {RespSet(s) : s \in SeqsUpTo(OrdElems, MaxElems)}

InitOrd ==
    /\ Backend_new
    /\ NoHistory
    /\ NothingExecuted
    /\ req = None
    /\ conv = None
    /\ pc = "exec"
    /\ codec = None
    /\ conn = None
    /\ conc = None
    /\ \E a \in OrdFrames, b \in OrdFrames :
          cmp = [pc |-> "idle", a |-> a, b |-> b, op |-> "none", out |-> None]

OrdRest == <<store, hist, reply, ret, lastCmd, pipe, codec, conn, conc>>

OrdIdle == cmp # None /\ cmp.pc = "idle"

\* a.cmp(&b)
OrdCmp ==
    /\ OrdIdle
    /\ cmp' = [cmp EXCEPT !.pc = "done", !.op = "cmp",
                          !.out = RespFrame_cmp(cmp.a, cmp.b)]
    /\ UNCHANGED OrdRest

\* a == b
OrdEq ==
    /\ OrdIdle
    /\ cmp' = [cmp EXCEPT !.pc = "done", !.op = "eq",
                          !.out = RespFrame_eq(cmp.a, cmp.b)]
    /\ UNCHANGED OrdRest

\* a and b are each hashed with a fresh hasher
OrdHash ==
    /\ OrdIdle
    /\ cmp' = [cmp EXCEPT !.pc = "done", !.op = "hash",
                          !.out = <<RespFrame_hash(cmp.a), RespFrame_hash(cmp.b)>>]
    /\ UNCHANGED OrdRest

\* the elements of a, a collection of frames, are sorted
OrdSort ==
    /\ OrdIdle
    /\ cmp.a.type = "Set"
    /\ cmp' = [cmp EXCEPT !.pc = "done", !.op = "sort", !.out = sort(cmp.a.val)]
    /\ UNCHANGED OrdRest

\* a is stored as the element of a set, then b is looked up in it
OrdContains ==
    /\ OrdIdle
    /\ \E out \in insert_then_contains(cmp.a, cmp.b) :
          cmp' = [cmp EXCEPT !.pc = "done", !.op = "contains", !.out = out]
    /\ UNCHANGED OrdRest

NextOrd ==
    \/ OrdCmp
    \/ OrdEq
    \/ OrdHash
    \/ OrdSort
    \/ OrdContains

SpecOrd == InitOrd /\ [][NextOrd]_vars

OrdDone(op) == cmp # None /\ cmp.pc = "done" /\ cmp.op = op

Elements(v) == {v[i] : i \in DOMAIN v}

\* C18: comparing two Double frames, NaN included, returns an ordering that
\* is Equal exactly when the frames are equal; two NaN Doubles are equal;
\* sorting a collection of frames that contains a Double(NaN) returns.
C18_DoubleOrderingTotal ==
    /\ (OrdDone("cmp") /\ cmp.a.type = "Double" /\ cmp.b.type = "Double") =>
          /\ cmp.out.type = "Returns"
          /\ (cmp.out.val = "Equal") <=> Nf64_eq(cmp.a.val, cmp.b.val)
    /\ (OrdDone("eq") /\ cmp.a = Double(F64_NaN) /\ cmp.b = Double(F64_NaN)) =>
          cmp.out = Returns(TRUE)
    /\ (OrdDone("sort") /\ Double(F64_NaN) \in Elements(cmp.a.val)) =>
          cmp.out.type = "Returns"

\* y holds the elements of x in some order
IsPermutation(x, y) ==
    /\ Len(x) = Len(y)
    /\ \E p \in [DOMAIN x -> DOMAIN x] :
          /\ \A i, j \in DOMAIN x : i # j => p[i] # p[j]
          /\ \A i \in DOMAIN x : y[i] = x[p[i]]

BothSets == cmp.a.type = "Set" /\ cmp.b.type = "Set"

\* C19: two Sets holding the same elements in different orders are equal
\* and hash equal, whatever the variants of the elements, and comparing two
\* Sets for order returns.
C19_SetsOrderIndependent ==
    /\ (OrdDone("eq") /\ BothSets /\ IsPermutation(cmp.a.val, cmp.b.val)) =>
          cmp.out = Returns(TRUE)
    /\ (OrdDone("hash") /\ BothSets /\ IsPermutation(cmp.a.val, cmp.b.val)) =>
          /\ cmp.out[1].type = "Returns"
          /\ cmp.out[1] = cmp.out[2]
    /\ (OrdDone("cmp") /\ BothSets) => cmp.out.type = "Returns"

\* ---------------------------------------------------------------- SpecConn
\* examples/dredis.rs: one connection served by process_conn; the peer
\* sends requests and may close, the transport delivers the bytes in
\* pieces of any size.

BUF_SIZE == 2048
MaxRequests == 2

Req_set == RespArray(<<BulkString(Name_set), BulkString(KeyOf(1)), Val_v1>>)
Req_get == RespArray(<<BulkString(Name_get), BulkString(KeyOf(1))>>)
PeerRequests == {Req_set, Req_get}

\* b"+OK\r\n"
Bytes_OK == <<43, 79, 75, 13, 10>>

InitConn ==
    /\ Backend_new
    /\ NoHistory
    /\ NothingExecuted
    /\ req = None
    /\ conv = None
    /\ pc = "exec"
    /\ codec = None
    /\ cmp = None
    /\ conc = None
    /\ conn = [pc |-> "readable", sent |-> <<>>, net |-> <<>>, closed |-> FALSE,
               rcvd |-> 0, out |-> <<>>, left |-> <<>>]

ConnRest == <<store, hist, reply, ret, lastCmd, pipe, codec, cmp, conc>>

\* the peer writes one more request to the stream
PeerSend ==
    /\ conn # None
    /\ ~conn.closed
    /\ Len(conn.sent) < MaxRequests
    /\ \E r \in PeerRequests :
          conn' = [conn EXCEPT !.sent = Append(conn.sent, r),
                               !.net = conn.net \o encode(r)]
    /\ UNCHANGED ConnRest

\* the peer closes its side of the stream
PeerClose ==
    /\ conn # None
    /\ ~conn.closed
    /\ conn' = [conn EXCEPT !.closed = TRUE]
    /\ UNCHANGED ConnRest

\* stream.readable().await returns (readiness may be a false positive)
ConnReadable ==
    /\ conn # None
    /\ conn.pc = "readable"
    /\ conn' = [conn EXCEPT !.pc = "read"]
    /\ UNCHANGED ConnRest

\* try_read_buf returns Ok(n), n > 0: the bytes are taken off the socket
\* and logged, and write_all(b"+OK\r\n") begins
ConnRead ==
    /\ conn # None
    /\ conn.pc = "read"
    /\ conn.net # <<>>
    /\ \E n \in 1..Len(conn.net) :
          /\ n <= BUF_SIZE
          /\ conn' = [conn EXCEPT
                         !.net = SubSeq(conn.net, n + 1, Len(conn.net)),
                         !.rcvd = conn.rcvd + n,
                         !.left = Bytes_OK,
                         !.pc = "write"]
    /\ UNCHANGED ConnRest

\* the replies on the stream once chunk, the next bytes of the reply being
\* written, has been taken by the socket
write_chunk(out, left, chunk) ==
    IF left = Bytes_OK THEN Append(out, chunk)
    ELSE [out EXCEPT ![Len(out)] = @ \o chunk]

\* write_all(...).await: the socket takes the next m bytes of the reply;
\* until it has taken them all the task is suspended in write_all
ConnWrite ==
    /\ conn # None
    /\ conn.pc = "write"
    /\ \E m \in 1..Len(conn.left) :
          conn' = [conn EXCEPT
                      !.out = write_chunk(conn.out, conn.left, SubSeq(conn.left, 1, m)),
                      !.left = SubSeq(conn.left, m + 1, Len(conn.left)),
                      !.pc = IF m = Len(conn.left) THEN "readable" ELSE "write"]
    /\ UNCHANGED ConnRest

\* write_all returns an error, with none or a part of the reply written:
\* the handler returns it
ConnWriteError ==
    /\ conn # None
    /\ conn.pc = "write"
    /\ conn' = [conn EXCEPT !.pc = "failed"]
    /\ UNCHANGED ConnRest

\* try_read_buf returns Ok(0): the peer has closed, the loop is left
ConnRead0 ==
    /\ conn # None
    /\ conn.pc = "read"
    /\ conn.net = <<>>
    /\ conn.closed
    /\ conn' = [conn EXCEPT !.pc = "returned"]
    /\ UNCHANGED ConnRest

\* try_read_buf returns WouldBlock: back to waiting
ConnWouldBlock ==
    /\ conn # None
    /\ conn.pc = "read"
    /\ conn.net = <<>>
    /\ ~conn.closed
    /\ conn' = [conn EXCEPT !.pc = "readable"]
    /\ UNCHANGED ConnRest

\* try_read_buf returns another error: the handler returns it
ConnReadError ==
    /\ conn # None
    /\ conn.pc = "read"
    /\ conn' = [conn EXCEPT !.pc = "failed"]
    /\ UNCHANGED ConnRest

NextConn ==
    \/ PeerSend
    \/ PeerClose
    \/ ConnReadable
    \/ ConnRead
    \/ ConnWrite
    \/ ConnWriteError
    \/ ConnRead0
    \/ ConnWouldBlock
    \/ ConnReadError

SpecConn == InitConn /\ [][NextConn]_vars

\* the flat namespace after the requests reqs have been executed in order
RECURSIVE StoreAfter(_)
StoreAfter(reqs) ==
    IF reqs = <<>> THEN EmptyMap
    ELSE LET before == StoreAfter(SubSeq(reqs, 1, Len(reqs) - 1))
             c == Command_try_from(reqs[Len(reqs)]).val
         IN  IF c.type = "Set" THEN set(before, c.key, c.arg) ELSE before

\* the reply that answers the k-th request of reqs
Answer(reqs, k) ==
    LET c == Command_try_from(reqs[k]).val
    IN  IF c.type = "Set" THEN RESP_OK
        ELSE OrNull(get(StoreAfter(SubSeq(reqs, 1, k - 1)), c.key))

\* the number of bytes of the first k requests on the wire
RECURSIVE WireLen(_, _)
WireLen(reqs, k) == IF k = 0 THEN 0 ELSE WireLen(reqs, k - 1) + Len(encode(reqs[k]))

\* the number of requests whose bytes the handler has read in full
Arrived == Cardinality({k \in DOMAIN conn.sent : WireLen(conn.sent, k) <= conn.rcvd})

\* the replies written in full: the last one is not while write_all has
\* written a part of it
Replied ==
    IF conn.left \in {<<>>, Bytes_OK} THEN DOMAIN conn.out
    ELSE 1..(Len(conn.out) - 1)

\* C20: on one connection the k-th reply written answers the k-th request
\* sent, also when several requests arrive in one read or one request is
\* split across reads: whenever the handler waits for more bytes it has
\* written one reply for each request that has arrived in full, in order;
\* and the handler returns once the peer has closed and a read gives 0 bytes.
C20_RepliesInRequestOrder ==
    conn # None =>
        /\ \A k \in Replied :
              /\ k <= Len(conn.sent)
              /\ conn.out[k] = encode(Answer(conn.sent, k))
        /\ conn.pc = "readable" => Len(conn.out) = Arrived
        /\ conn.pc = "returned" => (conn.closed /\ conn.net = <<>>)

\* the two frames compare equal
FramesEqual == RespFrame_eq(cmp.a, cmp.b) = Returns(TRUE)

\* C24: two frames that compare equal have the same hash (NaN and NaN, 0.0
\* and -0.0 included), and a frame stored as a set element is found by a
\* lookup with an equal frame.
C24_EqualFramesHashEqual ==
    /\ (OrdDone("hash") /\ FramesEqual) => cmp.out[1] = cmp.out[2]
    /\ (OrdDone("contains") /\ FramesEqual) => cmp.out = Returns(TRUE)

\* ---------------------------------------------------------------- SpecConc
\* backend/mod.rs, cmd/hmap.rs: two execution contexts share one Backend and
\* each runs one backend call. A DashMap guards each of its shards with a
\* read-write lock: get holds the read lock of the key's shard while its
\* Ref lives, insert and entry hold the write lock. The inner DashMap of a
\* hash key and the DashSet of a set key have shard locks of their own.

Ctxs == {1, 2}

\* the shards of an inner map, in the order iter visits them
ShardOrder == <<1, 2>>

Op(name, key, field, value, fields) ==
    [name |-> name, key |-> key, field |-> field, value |-> value, fields |-> fields]

ConcOps ==
    {Op("get", k, <<>>, RespNull, <<>>) : k \in Keys}
    \cup {Op("set", k, <<>>, v, <<>>) : k \in Keys, v \in Vals}
    \cup {Op("hget", k, f, RespNull, <<>>) : k \in Keys, f \in Fields}
    \cup {Op("hset", k, f, v, <<>>) : k \in Keys, f \in Fields, v \in Vals}
    \cup {Op("hgetall", k, <<>>, RespNull, <<>>) : k \in Keys}
    \cup {Op("hmget", k, <<>>, RespNull, <<Field_ab, Field_b>>) : k \in Keys}
    \cup {Op("sadd", k, <<>>, Val_v1, <<>>) : k \in Keys}
    \cup {Op("sismember", k, <<>>, Val_v1, <<>>) : k \in Keys}

WriteOps == {"set", "hset", "sadd"}
TwoLevelOps == {"hget", "hset", "hgetall", "hmget", "sismember"}

\* the namespace a call works on
Namespace(name) ==
    IF name \in {"get", "set"} THEN "map"
    ELSE IF name \in {"sadd", "sismember"} THEN "dset"
    ELSE "hmap"

\* the shard of a key or field: determined by its hash, so two of them may
\* or may not share a shard
ShardOfKey(c, key) ==
    IF "keys" \in c.same THEN 1 ELSE CHOOSE i \in 1..NumKeys : KeyOf(i) = key

ShardOfField(c, field) ==
    IF "fields" \in c.same \/ field = Field_b THEN 1 ELSE 2

\* the lock of the shard of the outer map that holds the key of op
OuterLock(c, op) ==
    [ns |-> Namespace(op.name), key |-> <<>>, shard |-> ShardOfKey(c, op.key)]

\* the lock of a shard of the inner map or set owned by the key of op
InnerLock(op, shard) ==
    [ns |-> "inner", key |-> <<Namespace(op.name)>> \o op.key, shard |-> shard]

\* the shard of the inner map a call in progress turns to next
InnerShard(c, th) ==
    CASE th.op.name \in {"hget", "hset"} -> ShardOfField(c, th.op.field)
      [] th.op.name = "hmget" -> ShardOfField(c, th.op.fields[th.i])
      [] th.op.name = "hgetall" -> ShardOrder[th.i]
      [] OTHER -> 1

NextLock_OuterAgain(c, t) ==
    IF c.th[t].pc \in {"start", "ref"} THEN OuterLock(c, c.th[t].op)
    ELSE InnerLock(c.th[t].op, InnerShard(c, c.th[t]))

\* the lock context t takes next: the outer shard first, then, still
\* holding it, the shard of the inner map
NextLock(c, t) ==
    IF c.th[t].pc = "start" THEN OuterLock(c, c.th[t].op)
    ELSE InnerLock(c.th[t].op, InnerShard(c, c.th[t]))

\* insert and entry lock for writing, get and iter for reading
LockMode(name) == IF name \in WriteOps THEN "w" ELSE "r"

\* RwLock: readers share, a writer excludes everyone
CanLock(held, lock, mode) ==
    \A h \in held : h.lock = lock => (mode = "r" /\ h.mode = "r")

acquire(held, t, lock, mode) == held \cup {[t |-> t, lock |-> lock, mode |-> mode]}

\* the guard of context t on lock is dropped
unlock(held, t, lock) == {h \in held : ~(h.t = t /\ h.lock = lock)}

\* the call of context t returns: all its guards are dropped
unlock_all(held, t) == {h \in held : h.t # t}

after_or_default_Drop(held, t, lock) == unlock(held, t, lock)

\* the guards after entry(key).or_default(): the RefMut returned keeps the
\* write lock of the outer shard
after_or_default(held, t, lock) == held

\* the key of the call is present in its namespace
KeyPresent(op) ==
    op.key \in DOMAIN (IF Namespace(op.name) = "hmap" THEN hmap ELSE dset)

\* context t is at a point where it takes a lock
AtLock(c, t) ==
    \/ c.th[t].pc = "start"
    \/ c.th[t].pc = "ref"
    \/ /\ c.th[t].pc = "outer"
       /\ c.th[t].op.name \in TwoLevelOps \ {"hset"}
       /\ KeyPresent(c.th[t].op)

\* context t is at a lock that it cannot get now
Waiting(c, t) ==
    /\ AtLock(c, t)
    /\ ~CanLock(c.held, NextLock(c, t), LockMode(c.th[t].op.name))

InitConc ==
    /\ (Backend_new /\ NoHistory) \/ Backend_seeded
    /\ NothingExecuted
    /\ req = None
    /\ conv = None
    /\ pc = "exec"
    /\ codec = None
    /\ cmp = None
    /\ conn = None
    /\ \E same \in SUBSET {"keys", "fields"}, ops \in [Ctxs -> ConcOps] :
          conc = [same |-> same,
                  held |-> {},
                  th |-> [t \in Ctxs |->
                             [op |-> ops[t], pc |-> "start", out |-> None,
                              acc |-> <<>>, i |-> 1]]]

ConcRest == <<hist, reply, ret, lastCmd, pipe, codec, cmp, conn>>

\* the state of the contexts after context t took a step to position pc
Moved(c, t, pc1, held1) ==
    [c EXCEPT !.th[t].pc = pc1, !.held = held1]

\* the state of the contexts after the call of context t returned out
Returned(c, t, out) ==
    [c EXCEPT !.th[t].pc = "done", !.th[t].out = out,
              !.held = unlock_all(c.held, t)]

\* the state after context t finished with one shard of the inner map:
\* the call returns after the last one, else turns to the next
Advanced(c, t, acc, last, out) ==
    IF last THEN [Returned(c, t, out) EXCEPT !.th[t].acc = acc]
    ELSE [c EXCEPT !.th[t].pc = "outer", !.th[t].acc = acc,
                   !.th[t].i = c.th[t].i + 1,
                   !.held = unlock(c.held, t, NextLock(c, t))]

\* a context takes the lock it needs next
Lock ==
    \E t \in Ctxs :
        /\ AtLock(conc, t)
        /\ ~Waiting(conc, t)
        /\ conc' = Moved(conc, t,
                         IF conc.th[t].pc = "start" THEN "outer" ELSE "inner",
                         acquire(conc.held, t, NextLock(conc, t),
                                 LockMode(conc.th[t].op.name)))
        /\ UNCHANGED <<store, ConcRest>>

\* Backend::get under the read lock
ConcGet ==
    \E t \in Ctxs :
        /\ conc.th[t].pc = "outer"
        /\ conc.th[t].op.name = "get"
        /\ conc' = Returned(conc, t, get(map, conc.th[t].op.key))
        /\ UNCHANGED <<store, ConcRest>>

\* Backend::set under the write lock
ConcSet ==
    \E t \in Ctxs :
        /\ conc.th[t].pc = "outer"
        /\ conc.th[t].op.name = "set"
        /\ map' = set(map, conc.th[t].op.key, conc.th[t].op.value)
        /\ conc' = Returned(conc, t, Unit)
        /\ UNCHANGED <<hmap, dset, ConcRest>>

\* Backend::sadd under the write lock
ConcSadd ==
    \E t \in Ctxs :
        /\ conc.th[t].pc = "outer"
        /\ conc.th[t].op.name = "sadd"
        /\ sadd(dset, conc.th[t].op.key, conc.th[t].op.value).ret # Diverges
        /\ dset' = sadd(dset, conc.th[t].op.key, conc.th[t].op.value).dset
        /\ conc' = Returned(conc, t, sadd(dset, conc.th[t].op.key, conc.th[t].op.value).ret)
        /\ UNCHANGED <<map, hmap, ConcRest>>

\* hget, hmget, hgetall, sismember: the outer get found no such key
ConcMiss ==
    \E t \in Ctxs :
        /\ conc.th[t].pc = "outer"
        /\ conc.th[t].op.name \in TwoLevelOps \ {"hset"}
        /\ ~KeyPresent(conc.th[t].op)
        /\ conc' = Returned(conc, t,
                            IF conc.th[t].op.name = "hgetall"
                            THEN RespArray(<<>>) ELSE None)
        /\ UNCHANGED <<store, ConcRest>>

\* Backend::hset: entry(key).or_default() under the outer write lock
ConcHSetOrDefault ==
    \E t \in Ctxs :
        /\ conc.th[t].pc = "outer"
        /\ conc.th[t].op.name = "hset"
        /\ hmap' = entry_or_default(hmap, conc.th[t].op.key)
        /\ conc' = Moved(conc, t, "ref",
                         after_or_default(conc.held, t, OuterLock(conc, conc.th[t].op)))
        /\ UNCHANGED <<map, dset, ConcRest>>

\* Backend::hset: hmap.insert(field, value) on the inner map
ConcHSetInsert ==
    \E t \in Ctxs :
        /\ conc.th[t].pc = "inner"
        /\ conc.th[t].op.name = "hset"
        /\ hmap' = DashMap_insert(hmap, conc.th[t].op.key,
                                  DashMap_insert(hmap[conc.th[t].op.key],
                                                 conc.th[t].op.field,
                                                 conc.th[t].op.value))
        /\ conc' = Moved(conc, t, "inserted", unlock(conc.held, t, NextLock(conc, t)))
        /\ UNCHANGED <<map, dset, ConcRest>>

\* Backend::hset returns: the RefMut is dropped
ConcHSetReturn ==
    \E t \in Ctxs :
        /\ conc.th[t].pc = "inserted"
        /\ conc' = Returned(conc, t, Unit)
        /\ UNCHANGED <<store, ConcRest>>

\* Backend::hget: the inner get
ConcHGet ==
    \E t \in Ctxs :
        /\ conc.th[t].pc = "inner"
        /\ conc.th[t].op.name = "hget"
        /\ conc' = Returned(conc, t, hget(hmap, conc.th[t].op.key, conc.th[t].op.field))
        /\ UNCHANGED <<store, ConcRest>>

\* Backend::sismember: contains on the set of the key
ConcSismember ==
    \E t \in Ctxs :
        /\ conc.th[t].pc = "inner"
        /\ conc.th[t].op.name = "sismember"
        /\ \E r \in sismember(dset, conc.th[t].op.key, conc.th[t].op.value) \ {Diverges} :
              conc' = Returned(conc, t, r)
        /\ UNCHANGED <<store, ConcRest>>

\* the values collected by hmget once the next field has been looked up
HMGetAcc(th) == th.acc \o filter_map(hmap[th.op.key], <<th.op.fields[th.i]>>)

\* Backend::hmget: the inner get of the next field
ConcHMGetField ==
    \E t \in Ctxs :
        /\ conc.th[t].pc = "inner"
        /\ conc.th[t].op.name = "hmget"
        /\ conc' = Advanced(conc, t, HMGetAcc(conc.th[t]),
                            conc.th[t].i = Len(conc.th[t].op.fields),
                            Some(HMGetAcc(conc.th[t])))
        /\ UNCHANGED <<store, ConcRest>>

\* the fields of the inner map of the call that live in the shard it is at
FieldsInShard(c, th) ==
    {f \in DOMAIN hmap[th.op.key] : ShardOfField(c, f) = ShardOrder[th.i]}

\* HGetAll::execute: the entries of the next shard of the inner map go
\* into the RespMap
ConcHGetAllShard ==
    \E t \in Ctxs :
        /\ conc.th[t].pc = "inner"
        /\ conc.th[t].op.name = "hgetall"
        /\ \E order \in IterOrders(FieldsInShard(conc, conc.th[t])) :
              conc' = Advanced(conc, t,
                               collect_map(hmap[conc.th[t].op.key], order, conc.th[t].acc),
                               conc.th[t].i = Len(ShardOrder),
                               RespMap(collect_map(hmap[conc.th[t].op.key], order,
                                                   conc.th[t].acc)))
        /\ UNCHANGED <<store, ConcRest>>

NextConc ==
    \/ Lock
    \/ ConcGet
    \/ ConcSet
    \/ ConcSadd
    \/ ConcMiss
    \/ ConcHSetOrDefault
    \/ ConcHSetInsert
    \/ ConcHSetReturn
    \/ ConcHGet
    \/ ConcSismember
    \/ ConcHMGetField
    \/ ConcHGetAllShard

SpecConc == InitConc /\ [][NextConc]_vars

AllDone == \A t \in Ctxs : conc.th[t].pc = "done"

\* both contexts run the call name on the same key
BothRun(name) ==
    /\ \A t \in Ctxs : conc.th[t].op.name = name
    /\ conc.th[1].op.key = conc.th[2].op.key

\* C21: once two concurrent HSet on the same outer key with different
\* fields have both completed, each field holds the value written to it;
\* two concurrent Set on the same key leave one of the two values.
C21_NoLostUpdate ==
    (conc # None /\ AllDone) =>
        /\ (BothRun("hset") /\ conc.th[1].op.field # conc.th[2].op.field) =>
              \A t \in Ctxs :
                  hget(hmap, conc.th[t].op.key, conc.th[t].op.field)
                      = Some(conc.th[t].op.value)
        /\ BothRun("set") =>
              get(map, conc.th[1].op.key)
                  \in {Some(conc.th[t].op.value) : t \in Ctxs}

\* two HSet with different fields and different values have completed on a
\* key that was fresh
C21_Witness ==
    /\ conc # None
    /\ AllDone
    /\ BothRun("hset")
    /\ conc.th[1].op.key = KeyOf(2)
    /\ conc.th[1].op.field # conc.th[2].op.field
    /\ conc.th[1].op.value # conc.th[2].op.value
    /\ DOMAIN hmap[KeyOf(2)] = Fields

\* the write lock of the outer shard of key is held
WriteLocked(key) ==
    \E h \in conc.held :
        /\ h.lock = [ns |-> "hmap", key |-> <<>>, shard |-> ShardOfKey(conc, key)]
        /\ h.mode = "w"

\* C22: an outer key of the hash namespace owns a non-empty inner map in
\* every state a reader can observe (an empty one exists only under the
\* write lock of the HSet that is creating it), and HGetAll replies an
\* empty Array or a Map with at least one field, never an empty Map.
C22_InnerMapsNonEmpty ==
    conc # None =>
        /\ \A k \in DOMAIN hmap : hmap[k] = EmptyMap => WriteLocked(k)
        /\ \A t \in Ctxs :
              (conc.th[t].op.name = "hgetall" /\ conc.th[t].pc = "done") =>
                  \/ conc.th[t].out = RespArray(<<>>)
                  \/ conc.th[t].out.type = "Map" /\ conc.th[t].out.val # <<>>

\* an HSet has created the inner map of a fresh key and not yet inserted
\* into it, while an HGetAll of the same key waits for the shard
C22_Witness ==
    /\ conc # None
    /\ \E t, u \in Ctxs :
          /\ conc.th[t].op.name = "hset"
          /\ conc.th[t].pc \in {"ref", "inner"}
          /\ hmap[conc.th[t].op.key] = EmptyMap
          /\ conc.th[u].op.name = "hgetall"
          /\ conc.th[u].op.key = conc.th[t].op.key
          /\ Waiting(conc, u)

\* C23: concurrent backend calls never deadlock: while a call is not yet
\* complete some call can take its next step; an inner lock is only held
\* together with the outer lock, and a completed call holds no lock.
C23_NoDeadlock ==
    conc # None =>
        /\ (\E t \in Ctxs : conc.th[t].pc # "done") =>
              \E t \in Ctxs : conc.th[t].pc # "done" /\ ~Waiting(conc, t)
        /\ \A h \in conc.held :
              /\ conc.th[h.t].pc # "done"
              /\ h.lock.ns = "inner" =>
                    \E g \in conc.held : g.t = h.t /\ g.lock.ns # "inner"

\* a call waits for the outer shard while an HSet on it holds the outer
\* write lock and the lock of an inner shard
C23_Witness ==
    /\ conc # None
    /\ \E t, u \in Ctxs :
          /\ conc.th[t].op.name = "hset"
          /\ conc.th[t].pc = "inner"
          /\ conc.th[u].op.key # conc.th[t].op.key
          /\ Waiting(conc, u)
====
